---- MODULE Spec2Model ----
(***************************************************************************)
(* Model of the LinkedIn automation bot.                                   *)
(*                                                                         *)
(*  - connect.Service (src/connect/connect.go): SendConnectionRequest and  *)
(*    tryFallbacks as a step machine; the page is the environment and      *)
(*    answers every element query nondeterministically.  Every browser     *)
(*    interaction of the running call is appended to `events`.             *)
(*  - utils.RetryWithBackoff (src/utils/retry.go) as a recursive operator  *)
(*    over the sequence of results the operation returns.                  *)
(***************************************************************************)
EXTENDS Integers, Sequences, FiniteSets, TLC

(***************************************************************************)
(* Bounds of the model.                                                    *)
(***************************************************************************)
NegDailyLimit == 1      \* DailyLimit ranges over -NegDailyLimit..MaxDailyLimit
MaxDailyLimit == 2
NegRetries == 1         \* maxRetries ranges over -NegRetries..MaxRetriesBound
MaxRetriesBound == 3
MaxInitialBackoff == 3
MaxBackoffCap == 10
MaxClock == 3           \* time.Now() is read at most MaxClock times
NumURLs == 2            \* profile URLs the store and the messaging service are called with
NumCallers == 2         \* goroutines calling the store concurrently
MaxScroll == 420        \* HumanScroll is called with |deltaY| <= MaxScroll
MaxMoves == 2           \* HumanMove calls of one browser
MaxText == 3            \* bytes of the text HumanType is called with
NegBase == 3            \* SleepWithJitter is called with bases from -NegBase ns
MaxBase == 10           \*   to MaxBase ns
NegPages == 1           \* SearchPeople is called with maxPages from -NegPages
MaxPages == 2           \*   to MaxPages
MaxAnchors == 2         \* anchors on one page of search results
MaxLinks == 3           \* profile links present while SearchPeople waits
MaxCallErrors == 1      \* calls of one HumanType that answer an error
MaxConnections == 3     \* profile links DetectNewConnections returns

(***************************************************************************)
(* Program constants.                                                      *)
(***************************************************************************)
\* Browser.NavigateTo: utils.RetryWithBackoff(op, 3, 2*time.Second, 10*time.Second)
NavMaxRetries == 3
NavInitialBackoff == 2
NavMaxBackoff == 10

VARIABLES
    DailyLimit,   \* Service.DailyLimit
    sentCount,    \* Service.sentCount
    pc,           \* position of the running SendConnectionRequest call, "idle" between calls
    idx,          \* index of the selector the current probe loop is at
    connectBtn,   \* connectBtn: the selector whose element was kept, Nil for nil
    events,       \* browser interactions of the current (or last) call, in order
    ret,          \* return value of the last call: "none" before any, "running", "nil" or an error
    startCount,   \* sentCount when the current (or last) call was entered
    lastRes,      \* outcome of the latest selector probe
    modal,        \* what the page showed when it was inspected after the Connect click
    retryIn,      \* arguments of a RetryWithBackoff call
    retryOut,     \* its result
    retryPc,      \* "ready" before the call, "done" after it
    creds,        \* Config.LinkedIn: whether Username and Password are non-empty
    loginPc,      \* position of the Login call
    loginEvents,  \* browser interactions of the Login call, in order
    loginRet,     \* return value of Login, [kind, text]
    hasNav,       \* what the session check saw: "unseen", "present" or "absent"
    elapsed,      \* time.Since(startTime) in milliseconds
    polls,        \* iterations of the result-polling loop so far
    poll,         \* what the page showed in the latest iteration of the polling loop
    Data,         \* MemoryStore.Data of the running process
    file,         \* content of the store's JSON file on disk
    clock,        \* time.Now(), advanced by every reading
    loadErr,      \* NewJSONStore returned an error: the process has no store
    msgPc,        \* position of the running SendFollowUp call, "idle" between calls
    msgUrl,       \* profileURL of the current (or last) SendFollowUp call
    msgEvents,    \* browser interactions of the current (or last) SendFollowUp call
    msgRet,       \* return value of the last SendFollowUp call
    entryStore,   \* Data and file when the current (or last) SendFollowUp call was entered
    sendClicks,   \* per URL, clicks of the message send control in the running process
    lastPersist,  \* outcome of the latest persist(): "none", "ok" or "failed"
    lastOp,       \* the latest operation on the store and its URL
    mu,           \* MemoryStore.mu: the goroutine holding the write lock (0: none), and the readers
    callers,      \* per goroutine, the store method it is in and its position in it
    mainIn,       \* what main is started with: the -mode flag and what LoadConfig gives
    mainPc,       \* position of main
    browserProc,  \* the external browser process: "none", "open" or "closed"
    defers,       \* the deferred calls of main, in the order they were registered
    mainLog,      \* what main has done so far
    mainExit,     \* how the process ended: "running", "os.Exit" or "return", and its status
    deltaY,       \* argument of the HumanScroll call
    scrollPc,     \* position of the HumanScroll call: "call", "loop" or "done"
    remaining,    \* remaining
    currentScroll,\* currentScroll
    scrollLog,    \* the Mouse.Scroll calls and the sleeps of the call, in order
    LastMouse,    \* Browser.LastMouseX, Browser.LastMouseY
    move,         \* the latest HumanMove call: its inputs, its pointer-move events, its error
    prevMove,     \* distance, speed and step count of the successful move before it
    \* browser.Browser.HumanType
    typeIn,       \* the text (a Go string: bytes) and what element.Focus() answers
    typePc,       \* where the call is: "call", "loop" or "done"
    typeChars,    \* chars := []rune(text)
    typeI,        \* the loop index i
    typeLog,      \* Focus, InsertText, Keyboard.Press and sleep calls, in order
    typeDraws,    \* the rand.Float64() drawn for each character so far, in percent
    typeRet,      \* what the call returned
    typeFailed,   \* the first InsertText or Keyboard.Press call that answered an error
    typeField,    \* the text in the focused field of the page
    \* stealth.SleepWithJitter
    jitterIn,     \* the base duration (ns) and the deviation (percent) of the call
    jitterPc,     \* "call" or "done"
    jitterSlept,  \* the duration handed to time.Sleep
    \* search.Service.SearchPeople
    searchIn,     \* maxPages, what NavigateTo answers, the profile links present during the wait
    searchPc,     \* "call", "wait", "scrape", "paginate", "return" or "done"
    page,         \* the loop variable page
    anchors,      \* the href values of the anchors read so far, in the order read
    results,      \* the slice results
    searchLog,    \* Navigate, Wait, Scrape, Next and Click events, in order
    searchRet,    \* what the call returned
    \* the workflows of main: RunFollowUpWorkflow, RunConnectWorkflow
    wfIn,         \* what the workflow is run with: the URLs the page yields, the error of the lookup, the limit, the store at entry
    wfPc,         \* position inside RunFollowUpWorkflow / RunConnectWorkflow
    wfI,          \* index into connections of the follow-up loop
    processed,    \* processed: follow-ups sent in this run
    candidates,   \* candidates: the profiles not yet acted upon, shuffled
    targetURL,    \* targetURL := candidates[0]
    wfLog         \* history: one record per SendFollowUp call of the workflow

connectVars == <<DailyLimit, sentCount, pc, idx, connectBtn, events, ret, startCount, lastRes, modal>>
retryVars == <<retryIn, retryOut, retryPc>>
loginVars == <<creds, loginPc, loginEvents, loginRet, hasNav, elapsed, polls, poll>>
storeVars == <<Data, file, clock, loadErr, lastPersist, lastOp>>
msgVars == <<msgPc, msgUrl, msgEvents, msgRet, entryStore, sendClicks>>
lockVars == <<mu, callers>>
mainVars == <<mainIn, mainPc, browserProc, defers, mainLog, mainExit>>
scrollVars == <<deltaY, scrollPc, remaining, currentScroll, scrollLog>>
mouseVars == <<LastMouse, move, prevMove>>
typeVars == <<typeIn, typePc, typeChars, typeI, typeLog, typeDraws, typeRet, typeFailed, typeField>>
jitterVars == <<jitterIn, jitterPc, jitterSlept>>
searchVars == <<searchIn, searchPc, page, anchors, results, searchLog, searchRet>>
wfVars == <<wfIn, wfPc, wfI, processed, candidates, targetURL, wfLog>>
vars == <<DailyLimit, sentCount, pc, idx, connectBtn, events, ret, startCount, lastRes, modal,
          retryIn, retryOut, retryPc,
          creds, loginPc, loginEvents, loginRet, hasNav, elapsed, polls, poll,
          Data, file, clock, loadErr, lastPersist, lastOp,
          msgPc, msgUrl, msgEvents, msgRet, entryStore, sendClicks,
          mu, callers,
          mainIn, mainPc, browserProc, defers, mainLog, mainExit,
          deltaY, scrollPc, remaining, currentScroll, scrollLog,
          LastMouse, move, prevMove,
          typeIn, typePc, typeChars, typeI, typeLog, typeDraws, typeRet, typeFailed, typeField,
          jitterIn, jitterPc, jitterSlept,
          searchIn, searchPc, page, anchors, results, searchLog, searchRet,
          wfIn, wfPc, wfI, processed, candidates, targetURL, wfLog>>

\* What an action of one component leaves alone.
sessionVars == <<lockVars, mainVars, scrollVars, mouseVars, typeVars, jitterVars, searchVars, wfVars>>
coreVars == <<connectVars, retryVars, loginVars, storeVars, msgVars>>
notMain == <<coreVars, lockVars, scrollVars, mouseVars, typeVars, jitterVars, searchVars, wfVars>>
notScroll == <<coreVars, lockVars, mainVars, mouseVars, typeVars, jitterVars, searchVars, wfVars>>
notMouse == <<coreVars, lockVars, mainVars, scrollVars, typeVars, jitterVars, searchVars, wfVars>>
notType == <<coreVars, lockVars, mainVars, scrollVars, mouseVars, jitterVars, searchVars, wfVars>>
notJitter == <<coreVars, lockVars, mainVars, scrollVars, mouseVars, typeVars, searchVars, wfVars>>
notSearch == <<coreVars, lockVars, mainVars, scrollVars, mouseVars, typeVars, jitterVars, wfVars>>
notWorkflow == <<coreVars, lockVars, mainVars, scrollVars, mouseVars, typeVars, jitterVars, searchVars>>
notConnect == <<retryVars, loginVars, storeVars, msgVars, sessionVars>>
notRetry == <<connectVars, loginVars, storeVars, msgVars, sessionVars>>
notLogin == <<connectVars, retryVars, storeVars, msgVars, sessionVars>>
notMessaging == <<connectVars, retryVars, loginVars, sessionVars>>

Nil == "nil"

(***************************************************************************)
(* utils.RetryWithBackoff                                                  *)
(*                                                                         *)
(* op is the sequence of values the operation returns on its successive    *)
(* invocations ("nil" for success, anything else is that error).  The      *)
(* result carries the returned error and the log of what was done: one     *)
(* <<"op", result>> entry per invocation and one <<"sleep", d>> entry per  *)
(* time.Sleep(d).                                                          *)
(***************************************************************************)
\* backoff *= 2; if backoff > maxBackoff { backoff = maxBackoff }
NextBackoff(backoff, maxBackoff) ==
    IF backoff * 2 > maxBackoff THEN maxBackoff ELSE backoff * 2

\* Mutant: the loop bound is off by one (i < maxRetries).
LoopContinuesStrict(i, maxRetries) == i < maxRetries

\* for i := 0; i <= maxRetries; i++
LoopContinues(i, maxRetries) == i <= maxRetries

\* Mutant: err keeps the first error instead of being overwritten by each invocation.
AssignErrKeepFirst(err, e) == IF err = Nil THEN e ELSE err

\* err = op()
AssignErr(err, e) == e

RECURSIVE RetryLoop(_, _, _, _, _, _, _)
RetryLoop(op, maxRetries, maxBackoff, i, backoff, err, log) ==
    IF ~LoopContinues(i, maxRetries)
    THEN [ok |-> FALSE, retries |-> maxRetries, wrapped |-> err, log |-> log]
    ELSE LET n == Len(SelectSeq(log, LAMBDA e : e[1] = "op")) + 1
             e == op[n]
             err1 == AssignErr(err, e)
             log1 == Append(log, <<"op", e>>)
         IN  IF err1 = Nil
             THEN [ok |-> TRUE, retries |-> maxRetries, wrapped |-> Nil, log |-> log1]
             ELSE IF i = maxRetries
             THEN [ok |-> FALSE, retries |-> maxRetries, wrapped |-> err1, log |-> log1]
             ELSE RetryLoop(op, maxRetries, maxBackoff, i + 1,
                            NextBackoff(backoff, maxBackoff), err1,
                            Append(log1, <<"sleep", backoff>>))

RetryWithBackoff(op, maxRetries, initialBackoff, maxBackoff) ==
    RetryLoop(op, maxRetries, maxBackoff, 0, initialBackoff, Nil, <<>>)

\* The invocations and the sleeps of a RetryWithBackoff log.
OpResults(log) ==
    LET ops == SelectSeq(log, LAMBDA e : e[1] = "op")
    IN  [k \in 1..Len(ops) |-> ops[k][2]]
Sleeps(log) ==
    LET sl == SelectSeq(log, LAMBDA e : e[1] = "sleep")
    IN  [k \in 1..Len(sl) |-> sl[k][2]]

OpErrors == {Nil, "e1", "e2"}
RetryInputs ==
    [op : [1..(MaxRetriesBound + 1) -> OpErrors],
     maxRetries : (0 - NegRetries)..MaxRetriesBound,
     initialBackoff : 0..MaxInitialBackoff,
     maxBackoff : 0..MaxBackoffCap]

NoRetryOut == [ok |-> FALSE, retries |-> 0, wrapped |-> Nil, log |-> <<>>]

\* One call of RetryWithBackoff on the arguments drawn by InitRetry.
RetryCall ==
    /\ retryPc = "ready"
    /\ retryOut' = RetryWithBackoff(retryIn.op, retryIn.maxRetries,
                                    retryIn.initialBackoff, retryIn.maxBackoff)
    /\ retryPc' = "done"
    /\ UNCHANGED <<retryIn, notRetry>>

(***************************************************************************)
(* connect.Service                                                         *)
(***************************************************************************)
\* The selectors of SendConnectionRequest and tryFallbacks, by short names.
SelMain == "main"
SelPending == "button:Pending"
directConnectSelectors == <<"main-button-primary:Connect", "button-aria:Connect-not-Invite">>
SelMoreX == "main-button-aria:More actions"
SelMoreCss == "button[aria-label=More actions]"
menuOptions == <<"dropdown-span=Connect", "dropdown-span=Add", "dropdown-span:Invite",
                 "role-button-span=Connect", "role-button-span=Add">>
SelBody == "body"
SelEmail == "label:Email"
SelAddNote == "button:Add a note"
SelH1 == "h1"
SelNoteArea == "textarea[name=message]"
SelSendNow == "button[aria-label=Send now]"
SelDialogSend == "dialog-button:Send"
followSelectors == <<"button-aria:Follow", "button-span=Follow",
                     "dropdown-span=Follow", "role-button-span=Follow">>
msgSelectors == <<"button-aria:Message", "main-button:Message">>
SelTextBox == "div-role-textbox-contenteditable"
SelSubmit == "button[type=submit]"

\* The errors SendConnectionRequest returns.
ErrDailyLimit == "daily connection limit reached"
ErrNavigate == "operation failed after retries"
ErrWeeklyLimit == "weekly connection limit reached"
ErrSendNotFound == "send button not found in dialog"
ErrNoOptions == "no Connect, Follow, or Message options found"

\* Outcome of ElementX(sel) followed by Visible().
ProbeResults == {"notfound", "hidden", "visible"}

\* Mutant: the precondition compares with > instead of >=.
LimitReachedStrict(count, limit) == count > limit

\* if s.sentCount >= s.DailyLimit
LimitReached(count, limit) == count >= limit

\* Mutant: the Visible() check is dropped, any found element is kept.
FoundOnly(res) == res # "notfound"

\* if err == nil { if visible, _ := btn.Visible(); visible { ... break } }
FoundAndVisible(res) == res = "visible"

\* Mutant: the counter is not incremented.
IncrementNone(n) == n

\* s.sentCount++
Increment(n) == n + 1

\* Mutant: the weekly-limit text is not checked.
ModalOutcomeNoWeekly(weekly, hasEmail, howKnow) ==
    IF hasEmail THEN "skip"
    ELSE IF howKnow THEN "skip"
    ELSE "continue"

\* Mutant: the "How do you know" text is not checked.
ModalOutcomeNoHowKnow(weekly, hasEmail, howKnow) ==
    IF weekly THEN "weekly"
    ELSE IF hasEmail THEN "skip"
    ELSE "continue"

\* The checks on the page after the Connect click, in the order the code makes them.
ModalOutcome(weekly, hasEmail, howKnow) ==
    IF weekly THEN "weekly"
    ELSE IF hasEmail THEN "skip"
    ELSE IF howKnow THEN "skip"
    ELSE "continue"

\* Mutant: tryFallbacks skips the Follow block.
tryFallbacksEntryMessage == "message"

\* tryFallbacks starts with the Follow selectors.
tryFallbacksEntry == "follow"

Query(sel) == <<"query", sel>>
Click(sel) == <<"click", sel>>
Move(sel) == <<"move", sel>>
Type(sel) == <<"type", sel>>
Navigate == <<"navigate", "profileURL">>
Scroll == <<"scroll", "300">>
PressEscape == <<"press", "Escape">>

NoModal == [seen |-> FALSE, weekly |-> FALSE, email |-> FALSE, howKnow |-> FALSE]

\* return err / return nil
Return(e) ==
    /\ ret' = e
    /\ pc' = "idle"

\* New(b, l, limit)
InitConnect ==
    /\ DailyLimit \in (0 - NegDailyLimit)..MaxDailyLimit
    /\ sentCount = 0
    /\ pc = "idle"
    /\ idx = 0
    /\ connectBtn = Nil
    /\ events = <<>>
    /\ ret = "none"
    /\ startCount = 0
    /\ lastRes = "none"
    /\ modal = NoModal

\* Entry of SendConnectionRequest: the daily-limit precondition.
SendConnectionRequest ==
    /\ pc = "idle"
    /\ events' = <<>>
    /\ startCount' = sentCount
    /\ idx' = 0
    /\ connectBtn' = Nil
    /\ lastRes' = "none"
    /\ modal' = NoModal
    /\ IF LimitReached(sentCount, DailyLimit)
       THEN Return(ErrDailyLimit)
       ELSE ret' = "running" /\ pc' = "navigate"
    /\ UNCHANGED <<DailyLimit, sentCount, notConnect>>

\* s.Browser.NavigateTo(profileURL): Page.Navigate under RetryWithBackoff(op, 3, 2s, 10s).
NavigateTo ==
    /\ pc = "navigate"
    /\ \E op \in [1..(NavMaxRetries + 1) -> {Nil, "e1"}] :
          LET r == RetryWithBackoff(op, NavMaxRetries, NavInitialBackoff, NavMaxBackoff)
              n == Len(OpResults(r.log))
          IN  /\ events' = events \o [k \in 1..n |-> Navigate]
              /\ IF r.ok
                 THEN pc' = "load" /\ ret' = ret
                 ELSE Return(ErrNavigate)
    /\ UNCHANGED <<DailyLimit, sentCount, idx, connectBtn, startCount, lastRes, modal, notConnect>>

\* Wait for "main", scroll, then the "Pending" check.
LoadProfile ==
    /\ pc = "load"
    /\ \E mainFound \in BOOLEAN, pending \in BOOLEAN :
          /\ events' = events \o <<Query(SelMain), Scroll, Query(SelPending)>>
          /\ IF pending
             THEN Return(Nil) /\ idx' = idx
             ELSE pc' = "direct" /\ idx' = 1 /\ ret' = ret
    /\ UNCHANGED <<DailyLimit, sentCount, connectBtn, startCount, lastRes, modal, notConnect>>

\* One iteration of the loop over directConnectSelectors.
ProbeDirect ==
    /\ pc = "direct"
    /\ \E res \in ProbeResults :
          /\ lastRes' = res
          /\ events' = Append(events, Query(directConnectSelectors[idx]))
          /\ IF FoundAndVisible(res)
             THEN connectBtn' = directConnectSelectors[idx] /\ pc' = "click" /\ idx' = idx
             ELSE /\ connectBtn' = connectBtn
                  /\ IF idx < Len(directConnectSelectors)
                     THEN pc' = "direct" /\ idx' = idx + 1
                     ELSE pc' = "more" /\ idx' = 0
    /\ UNCHANGED <<DailyLimit, sentCount, ret, startCount, modal, notConnect>>

\* connectBtn == nil: look for the "More actions" button and open the menu.
OpenMore ==
    /\ pc = "more"
    /\ \E foundX \in BOOLEAN, foundCss \in BOOLEAN :
          IF foundX
          THEN /\ events' = events \o <<Query(SelMoreX), Move(SelMoreX), Click(SelMoreX)>>
               /\ pc' = "menu" /\ idx' = 1
          ELSE IF foundCss
          THEN /\ events' = events \o <<Query(SelMoreX), Query(SelMoreCss),
                                        Move(SelMoreCss), Click(SelMoreCss)>>
               /\ pc' = "menu" /\ idx' = 1
          ELSE /\ events' = events \o <<Query(SelMoreX), Query(SelMoreCss)>>
               /\ pc' = tryFallbacksEntry /\ idx' = 1
    /\ lastRes' = "none"
    /\ UNCHANGED <<DailyLimit, sentCount, connectBtn, ret, startCount, modal, notConnect>>

\* One iteration of the loop over menuOptions.
ProbeMenu ==
    /\ pc = "menu"
    /\ \E res \in ProbeResults :
          /\ lastRes' = res
          /\ events' = Append(events, Query(menuOptions[idx]))
          /\ IF FoundAndVisible(res)
             THEN connectBtn' = menuOptions[idx] /\ pc' = "click" /\ idx' = idx
             ELSE /\ connectBtn' = connectBtn
                  /\ IF idx < Len(menuOptions)
                     THEN pc' = "menu" /\ idx' = idx + 1
                     ELSE pc' = tryFallbacksEntry /\ idx' = 1
    /\ UNCHANGED <<DailyLimit, sentCount, ret, startCount, modal, notConnect>>

\* Click Connect, then read the page: weekly limit, email required, "How do you know".
ClickConnect ==
    /\ pc = "click"
    /\ \E weekly \in BOOLEAN, hasEmail \in BOOLEAN, howKnow \in BOOLEAN :
          LET clicked == events \o <<Move(connectBtn), Click(connectBtn), Query(SelBody)>>
              out == ModalOutcome(weekly, hasEmail, howKnow)
          IN  /\ modal' = [seen |-> TRUE, weekly |-> weekly, email |-> hasEmail,
                           howKnow |-> howKnow]
              /\ IF out = "weekly"
                 THEN events' = clicked /\ Return(ErrWeeklyLimit)
                 ELSE IF out = "skip"
                 THEN /\ events' = clicked \o <<Query(SelEmail), PressEscape>>
                      /\ Return(Nil)
                 ELSE /\ events' = Append(clicked, Query(SelEmail))
                      /\ pc' = "note" /\ ret' = ret
    /\ UNCHANGED <<DailyLimit, sentCount, idx, connectBtn, startCount, lastRes, notConnect>>

\* "Add a note": click it, read the first name, type the note.
AddNote ==
    /\ pc = "note"
    /\ \E found \in BOOLEAN, hasH1 \in BOOLEAN, hasArea \in BOOLEAN :
          events' = events \o
              (IF ~found THEN <<Query(SelAddNote)>>
               ELSE <<Query(SelAddNote), Click(SelAddNote), Query(SelH1), Query(SelNoteArea)>>
                    \o (IF hasArea THEN <<Type(SelNoteArea)>> ELSE <<>>))
    /\ pc' = "send"
    /\ UNCHANGED <<DailyLimit, sentCount, idx, connectBtn, ret, startCount, lastRes, modal,
                   notConnect>>

\* Find the Send control of the dialog and click it.
ClickSend ==
    /\ pc = "send"
    /\ \E sendNow \in BOOLEAN, dialogSend \in BOOLEAN :
          IF sendNow
          THEN /\ events' = events \o <<Query(SelSendNow), Move(SelSendNow), Click(SelSendNow)>>
               /\ sentCount' = Increment(sentCount)
               /\ Return(Nil)
          ELSE IF dialogSend
          THEN /\ events' = events \o <<Query(SelSendNow), Query(SelDialogSend),
                                        Move(SelDialogSend), Click(SelDialogSend)>>
               /\ sentCount' = Increment(sentCount)
               /\ Return(Nil)
          ELSE /\ events' = events \o <<Query(SelSendNow), Query(SelDialogSend)>>
               /\ sentCount' = sentCount
               /\ Return(ErrSendNotFound)
    /\ UNCHANGED <<DailyLimit, idx, connectBtn, startCount, lastRes, modal, notConnect>>

\* tryFallbacks: one iteration of the loop over followSelectors.
ProbeFollow ==
    /\ pc = "follow"
    /\ \E res \in ProbeResults :
          /\ lastRes' = res
          /\ IF FoundAndVisible(res)
             THEN /\ events' = events \o <<Query(followSelectors[idx]),
                                           Move(followSelectors[idx]),
                                           Click(followSelectors[idx])>>
                  /\ sentCount' = Increment(sentCount)
                  /\ Return(Nil)
                  /\ idx' = idx
             ELSE /\ events' = Append(events, Query(followSelectors[idx]))
                  /\ sentCount' = sentCount
                  /\ ret' = ret
                  /\ IF idx < Len(followSelectors)
                     THEN pc' = "follow" /\ idx' = idx + 1
                     ELSE pc' = "message" /\ idx' = 1
    /\ UNCHANGED <<DailyLimit, connectBtn, startCount, modal, notConnect>>

\* tryFallbacks: one iteration of the loop over msgSelectors.
ProbeMessage ==
    /\ pc = "message"
    /\ \E res \in ProbeResults :
          /\ lastRes' = res
          /\ IF FoundAndVisible(res)
             THEN /\ events' = events \o <<Query(msgSelectors[idx]), Move(msgSelectors[idx]),
                                           Click(msgSelectors[idx])>>
                  /\ pc' = "chat" /\ idx' = idx /\ ret' = ret
             ELSE /\ events' = Append(events, Query(msgSelectors[idx]))
                  /\ IF idx < Len(msgSelectors)
                     THEN pc' = "message" /\ idx' = idx + 1 /\ ret' = ret
                     ELSE Return(ErrNoOptions) /\ idx' = idx
    /\ UNCHANGED <<DailyLimit, sentCount, connectBtn, startCount, modal, notConnect>>

\* tryFallbacks: wait for the chat window, type the message, click its send button.
SendChat ==
    /\ pc = "chat"
    /\ \E textBox \in BOOLEAN, submit \in BOOLEAN :
          IF textBox /\ submit
          THEN /\ events' = events \o <<Query(SelTextBox), Type(SelTextBox),
                                        Query(SelSubmit), Click(SelSubmit)>>
               /\ sentCount' = Increment(sentCount)
               /\ Return(Nil)
          ELSE /\ events' = events \o
                      (IF textBox
                       THEN <<Query(SelTextBox), Type(SelTextBox), Query(SelSubmit)>>
                       ELSE <<Query(SelTextBox)>>)
               /\ sentCount' = sentCount
               /\ Return(ErrNoOptions)
    /\ lastRes' = "none"
    /\ UNCHANGED <<DailyLimit, idx, connectBtn, startCount, modal, notConnect>>

(***************************************************************************)
(* auth.Authenticator.Login                                                *)
(***************************************************************************)
\* The result-polling loop: for time.Since(startTime) < 30*time.Second { ... time.Sleep(500ms) }
PollWindow == 30000
PollInterval == 500

SelLoggedIn == ".global-nav__content"
SelUsername == "#username"
SelSessionKey == "input[name=session_key]"
SelPassword == "#password"
SelSessionPassword == "input[name=session_password]"
SelSignIn == "login-button[type=submit]"
SelLoginError == "#error-for-username, #error-for-password, .alert-content"
SelTitle == "page-title"

NavigateFeed == <<"navigate", "https://www.linkedin.com/feed/">>
NavigateLogin == <<"navigate", "https://www.linkedin.com/login">>
Input(sel) == <<"input", sel>>

\* The values Login returns.
LoginResult(kind, text) == [kind |-> kind, text |-> text]
LoginNone == LoginResult("none", "")
LoginOk == LoginResult(Nil, "")
ErrLoginNavigate == LoginResult(ErrNavigate, "")
ErrCredentials == LoginResult("cannot login: credentials missing in config/env", "")
ErrUserField == LoginResult("username field not found", "")
ErrUserVisible == LoginResult("username field not visible", "")
ErrPassField == LoginResult("password field not found", "")
ErrPassVisible == LoginResult("password field not visible", "")
ErrInput == LoginResult("input failed", "")
ErrSignIn == LoginResult("sign in button not found", "")
ErrLoginFailed(text) == LoginResult("login failed", text)
ErrChallenge == LoginResult("manual intervention required: 2FA/checkpoint detected", "")
ErrTimeout == LoginResult("timeout waiting for login result", "")

\* The texts the error element of the login page may carry.
ErrorTexts == {"", "Wrong email or password"}

NoPoll == [seen |-> FALSE, feed |-> FALSE, error |-> FALSE, challenge |-> FALSE, text |-> ""]

\* The runs NavigateTo can make: one per sequence of results of Page.Navigate.
NavRuns ==
    {RetryWithBackoff(op, NavMaxRetries, NavInitialBackoff, NavMaxBackoff) :
        op \in [1..(NavMaxRetries + 1) -> {Nil, "e1"}]}
Navigations(run, ev) == [k \in 1..Len(OpResults(run.log)) |-> ev]

\* Mutant: the logged-in indicator is not honoured.
AlreadyLoggedInNever(has) == FALSE

\* hasNav, _, _ := Page.Timeout(5s).Has(loggedInSelector); if hasNav { return nil }
AlreadyLoggedIn(has) == has

\* Mutant: the credentials are refused only when both are empty.
CredentialsMissingBoth(user, pass) == ~user /\ ~pass

\* if user == "" || pass == ""  (user and pass say whether the strings are non-empty)
CredentialsMissing(user, pass) == ~user \/ ~pass

\* Mutant: the loop condition admits elapsed == 30s.
PollOpenInclusive(t) == t <= PollWindow

\* for time.Since(startTime) < 30*time.Second
PollOpen(t) == t < PollWindow

\* Mutant: the page title is not inspected.
PollOutcomeNoChallenge(feed, error, challenge) ==
    IF feed THEN "success"
    ELSE IF error THEN "error"
    ELSE "pending"

\* One iteration of the polling loop: success, then error, then challenge.
PollOutcome(feed, error, challenge) ==
    IF feed THEN "success"
    ELSE IF error THEN "error"
    ELSE IF challenge THEN "challenge"
    ELSE "pending"

LoginReturn(r) ==
    /\ loginRet' = r
    /\ loginPc' = "done"

InitLogin ==
    /\ creds \in [user : BOOLEAN, pass : BOOLEAN]
    /\ loginPc = "start"
    /\ loginEvents = <<>>
    /\ loginRet = LoginNone
    /\ hasNav = "unseen"
    /\ elapsed = 0
    /\ polls = 0
    /\ poll = NoPoll

InitLoginIdle ==
    /\ creds = [user |-> TRUE, pass |-> TRUE]
    /\ loginPc = "off"
    /\ loginEvents = <<>>
    /\ loginRet = LoginNone
    /\ hasNav = "unseen"
    /\ elapsed = 0
    /\ polls = 0
    /\ poll = NoPoll

\* 1. Navigate to the feed.
LoginNavigate ==
    /\ loginPc = "start"
    /\ \E run \in NavRuns :
          /\ loginEvents' = loginEvents \o Navigations(run, NavigateFeed)
          /\ IF run.ok
             THEN loginPc' = "session" /\ loginRet' = loginRet
             ELSE LoginReturn(ErrLoginNavigate)
    /\ UNCHANGED <<creds, hasNav, elapsed, polls, poll, notLogin>>

\* 2. Already logged in?  If not, make sure the login page is shown, then
\* 3. read the credentials and refuse empty ones.
LoginCheckSession ==
    /\ loginPc = "session"
    /\ \E has \in BOOLEAN, hasInput \in BOOLEAN, run \in NavRuns :
          /\ hasNav' = IF has THEN "present" ELSE "absent"
          /\ IF AlreadyLoggedIn(has)
             THEN /\ loginEvents' = Append(loginEvents, Query(SelLoggedIn))
                  /\ LoginReturn(LoginOk)
             ELSE /\ loginEvents' = loginEvents
                        \o <<Query(SelLoggedIn), Query(SelUsername)>>
                        \o (IF hasInput THEN <<>> ELSE Navigations(run, NavigateLogin))
                  /\ IF CredentialsMissing(creds.user, creds.pass)
                     THEN LoginReturn(ErrCredentials)
                     ELSE loginPc' = "username" /\ loginRet' = loginRet
    /\ UNCHANGED <<creds, elapsed, polls, poll, notLogin>>

\* Find a credential field by its selector or its fallback, wait for it, fill it.
LoginField(sel, fallback, errNotFound, errNotVisible, nextPc) ==
    \E found \in BOOLEAN, foundFallback \in BOOLEAN, visible \in BOOLEAN, typed \in BOOLEAN :
        LET queries == IF found THEN <<Query(sel)>> ELSE <<Query(sel), Query(fallback)>>
            field == IF found THEN sel ELSE fallback
        IN  IF ~found /\ ~foundFallback
            THEN loginEvents' = loginEvents \o queries /\ LoginReturn(errNotFound)
            ELSE IF ~visible
            THEN loginEvents' = loginEvents \o queries /\ LoginReturn(errNotVisible)
            ELSE /\ loginEvents' = loginEvents \o queries \o <<Input(field)>>
                 /\ IF typed
                    THEN loginPc' = nextPc /\ loginRet' = loginRet
                    ELSE LoginReturn(ErrInput)

\* Username
LoginUsername ==
    /\ loginPc = "username"
    /\ LoginField(SelUsername, SelSessionKey, ErrUserField, ErrUserVisible, "password")
    /\ UNCHANGED <<creds, hasNav, elapsed, polls, poll, notLogin>>

\* Password
LoginPassword ==
    /\ loginPc = "password"
    /\ LoginField(SelPassword, SelSessionPassword, ErrPassField, ErrPassVisible, "submit")
    /\ UNCHANGED <<creds, hasNav, elapsed, polls, poll, notLogin>>

\* Click Sign In; startTime := time.Now()
LoginSubmit ==
    /\ loginPc = "submit"
    /\ \E found \in BOOLEAN :
          IF found
          THEN /\ loginEvents' = loginEvents \o <<Query(SelSignIn), Move(SelSignIn),
                                                  Click(SelSignIn)>>
               /\ loginPc' = "poll" /\ loginRet' = loginRet
          ELSE /\ loginEvents' = Append(loginEvents, Query(SelSignIn))
               /\ LoginReturn(ErrSignIn)
    /\ elapsed' = 0
    /\ UNCHANGED <<creds, hasNav, polls, poll, notLogin>>

\* 4. One evaluation of the loop condition and, if it holds, one iteration of the loop.
\* extra is the time the iteration's queries took on top of the 500ms sleep: none, or
\* enough to use up the whole window.
LoginPoll ==
    /\ loginPc = "poll"
    /\ IF ~PollOpen(elapsed)
       THEN /\ LoginReturn(ErrTimeout)
            /\ UNCHANGED <<loginEvents, elapsed, polls, poll>>
       ELSE \E feed \in BOOLEAN, error \in BOOLEAN, challenge \in BOOLEAN,
               text \in ErrorTexts, extra \in {0, PollWindow} :
               LET out == PollOutcome(feed, error, challenge)
               IN  /\ polls' = polls + 1
                   /\ poll' = [seen |-> TRUE, feed |-> feed, error |-> error,
                               challenge |-> challenge,
                               text |-> IF out = "error" THEN text ELSE ""]
                   /\ IF out = "success"
                      THEN /\ loginEvents' = Append(loginEvents, Query(SelLoggedIn))
                           /\ LoginReturn(LoginOk)
                           /\ elapsed' = elapsed
                      ELSE IF out = "error"
                      THEN /\ loginEvents' = loginEvents \o
                                  <<Query(SelLoggedIn), Query(SelLoginError), Query(SelLoginError)>>
                           /\ LoginReturn(ErrLoginFailed(text))
                           /\ elapsed' = elapsed
                      ELSE IF out = "challenge"
                      THEN /\ loginEvents' = loginEvents \o
                                  <<Query(SelLoggedIn), Query(SelLoginError), Query(SelTitle)>>
                           /\ LoginReturn(ErrChallenge)
                           /\ elapsed' = elapsed
                      ELSE /\ loginEvents' = loginEvents \o
                                  <<Query(SelLoggedIn), Query(SelLoginError), Query(SelTitle)>>
                           /\ loginPc' = "poll" /\ loginRet' = loginRet
                           /\ elapsed' = elapsed + PollInterval + extra
    /\ UNCHANGED <<creds, hasNav, notLogin>>

(***************************************************************************)
(* storage.MemoryStore                                                     *)
(*                                                                         *)
(* A map of StateData is a function from the URLs it holds to the time     *)
(* they were marked.  A time.Time read from the clock carries a monotonic  *)
(* reading, which its JSON form does not.  The file is absent, holds the   *)
(* document of the last successful write, or is left truncated by a write  *)
(* that failed.                                                            *)
(***************************************************************************)
ProfileURLs == <<"https://www.linkedin.com/in/a", "https://www.linkedin.com/in/b",
                 "https://www.linkedin.com/in/c", "https://www.linkedin.com/in/d">>
URLs == {ProfileURLs[n] : n \in 1..NumURLs}
Kinds == {"requests", "messages", "connections"}

EmptyData == [Requests |-> <<>>, Messages |-> <<>>, Connections |-> <<>>]
EmptyDoc == [requests |-> {}, messages |-> {}, connections |-> {}]
NoFile == [state |-> "absent", doc |-> EmptyDoc]

\* time.Now()
TimeNow(c) == [wall |-> c, mono |-> TRUE]

\* m[profileURL] = t
Put(m, url, t) == [u \in (DOMAIN m) \cup {url} |-> IF u = url THEN t ELSE m[u]]

\* json.MarshalIndent / json.Unmarshal of one map: an object with one member per key,
\* the time in RFC 3339 form (wall clock only).
MarshalMap(m) == {<<u, m[u].wall>> : u \in DOMAIN m}
UnmarshalMap(obj) ==
    [u \in {p[1] : p \in obj} |->
        [wall |-> (CHOOSE p \in obj : p[1] = u)[2], mono |-> FALSE]]

\* Mutant: the Messages field is not written to the document.
MarshalNoMessages(data) ==
    [requests |-> MarshalMap(data.Requests),
     messages |-> {},
     connections |-> MarshalMap(data.Connections)]

\* json.MarshalIndent(s.Data, "", "  ") with the json tags of StateData
Marshal(data) ==
    [requests |-> MarshalMap(data.Requests),
     messages |-> MarshalMap(data.Messages),
     connections |-> MarshalMap(data.Connections)]

\* json.Unmarshal(content, &s.Data)
Unmarshal(doc) ==
    [Requests |-> UnmarshalMap(doc.requests),
     Messages |-> UnmarshalMap(doc.messages),
     Connections |-> UnmarshalMap(doc.connections)]

\* NewJSONStore: empty maps, overwritten by the file's content if the file exists.
NewJSONStore(f) ==
    IF f.state = "absent" THEN [err |-> FALSE, Data |-> EmptyData]
    ELSE IF f.state = "corrupt" THEN [err |-> TRUE, Data |-> EmptyData]
    ELSE [err |-> FALSE, Data |-> Unmarshal(f.doc)]

\* persist(): os.WriteFile either replaces the content, fails before touching the file,
\* or fails after truncating it.
PersistOutcomes == {"ok", "open failed", "write failed"}
Persist(data, f, outcome) ==
    IF outcome = "ok" THEN [state |-> "ok", doc |-> Marshal(data)]
    ELSE IF outcome = "open failed" THEN f
    ELSE [state |-> "corrupt", doc |-> EmptyDoc]

\* s.Data.Requests[profileURL] = time.Now()
SaveRequestData(data, url, t) == [data EXCEPT !.Requests = Put(@, url, t)]

\* Mutant: SaveMessage writes into the Requests map.
SaveMessageDataWrongMap(data, url, t) == [data EXCEPT !.Requests = Put(@, url, t)]

\* s.Data.Messages[profileURL] = time.Now()
SaveMessageData(data, url, t) == [data EXCEPT !.Messages = Put(@, url, t)]

\* Mutant: SaveConnection writes into the Requests map.
SaveConnectionDataWrongMap(data, url, t) == [data EXCEPT !.Requests = Put(@, url, t)]

\* s.Data.Connections[profileURL] = time.Now()
SaveConnectionData(data, url, t) == [data EXCEPT !.Connections = Put(@, url, t)]

\* _, exists := s.Data.Requests[profileURL]
IsRequestSent(data, url) == url \in DOMAIN data.Requests

\* Mutant: IsMessaged looks into the Requests map.
IsMessagedWrongMap(data, url) == url \in DOMAIN data.Requests

\* _, exists := s.Data.Messages[profileURL]
IsMessaged(data, url) == url \in DOMAIN data.Messages

\* _, exists := s.Data.Connections[profileURL]
IsConnected(data, url) == url \in DOMAIN data.Connections

\* isMarked(url, kind) of the store interface
IsMarked(data, kind, url) ==
    IF kind = "requests" THEN IsRequestSent(data, url)
    ELSE IF kind = "messages" THEN IsMessaged(data, url)
    ELSE IsConnected(data, url)

NoOp == [op |-> "none", url |-> ""]

\* The effect of a Save* method: update the map, then rewrite the file.
Save(op, newData, url, outcome) ==
    /\ Data' = newData
    /\ file' = Persist(newData, file, outcome)
    /\ clock' = clock + 1
    /\ lastPersist' = IF outcome = "ok" THEN "ok" ELSE "failed"
    /\ lastOp' = [op |-> op, url |-> url]
    /\ UNCHANGED loadErr

SaveRequest ==
    /\ ~loadErr /\ clock < MaxClock
    /\ \E url \in URLs, outcome \in PersistOutcomes :
          Save("SaveRequest", SaveRequestData(Data, url, TimeNow(clock + 1)), url, outcome)
    /\ UNCHANGED <<msgVars, notMessaging>>

SaveMessage ==
    /\ ~loadErr /\ clock < MaxClock
    /\ \E url \in URLs, outcome \in PersistOutcomes :
          Save("SaveMessage", SaveMessageData(Data, url, TimeNow(clock + 1)), url, outcome)
    /\ UNCHANGED <<msgVars, notMessaging>>

SaveConnection ==
    /\ ~loadErr /\ clock < MaxClock
    /\ \E url \in URLs, outcome \in PersistOutcomes :
          Save("SaveConnection", SaveConnectionData(Data, url, TimeNow(clock + 1)), url, outcome)
    /\ UNCHANGED <<msgVars, notMessaging>>

\* Close(): persist() only.
Close ==
    /\ ~loadErr
    /\ \E outcome \in PersistOutcomes :
          /\ file' = Persist(Data, file, outcome)
          /\ lastPersist' = IF outcome = "ok" THEN "ok" ELSE "failed"
    /\ lastOp' = [op |-> "Close", url |-> NoOp.url]
    /\ UNCHANGED <<Data, clock, loadErr, msgVars, notMessaging>>

\* A new process opens the store: NewJSONStore(file).  Nothing of the previous process's
\* calls remains.
OpenStore ==
    /\ msgPc \in {"idle", "off"}
    /\ LET s == NewJSONStore(file)
       IN  /\ Data' = s.Data
           /\ loadErr' = s.err
           /\ entryStore' = [Data |-> s.Data, file |-> file]
    /\ lastPersist' = "none"
    /\ lastOp' = [op |-> "NewJSONStore", url |-> NoOp.url]
    /\ sendClicks' = [u \in URLs |-> 0]
    /\ msgUrl' = NoOp.url
    /\ msgEvents' = <<>>
    /\ msgRet' = "none"
    /\ UNCHANGED <<file, clock, msgPc, notMessaging>>

InitStore ==
    /\ Data = EmptyData
    /\ file = NoFile
    /\ clock = 0
    /\ loadErr = FALSE
    /\ lastPersist = "none"
    /\ lastOp = NoOp

InitStoreIdle == InitStore

InitMsgIdle ==
    /\ msgPc = "off"
    /\ msgUrl = NoOp.url
    /\ msgEvents = <<>>
    /\ msgRet = "none"
    /\ entryStore = [Data |-> EmptyData, file |-> NoFile]
    /\ sendClicks = [u \in URLs |-> 0]

(***************************************************************************)
(* messaging.Service.SendFollowUp                                          *)
(***************************************************************************)
SelMessageBtn == "button:Message"
SelWriteBox == "div[role=textbox][aria-label^=Write a message]"
SelMsgForm == ".msg-form__contenteditable"
SelSendText == "button:Send"

ErrMessageBtn == "message button not found (not connected?)"
ErrInputBox == "message input box not found"
ErrFocus == "focus failed"
ErrSendMsg == "send message button not found"

NavigateProfile(url) == <<"navigate", url>>
Focus(sel) == <<"focus", sel>>

MsgReturn(e) ==
    /\ msgRet' = e
    /\ msgPc' = "idle"

\* Mutant: the profile is marked as soon as the message has been typed.
WritesStoreEarly(step) == step \in {"type", "send"}

\* s.Store.SaveMessage(profileURL) is called once, after the click of the send button.
WritesStore(step) == step = "send"

\* What a completed step of SendFollowUp does to the store.
FollowUpStore(step, outcome) ==
    IF WritesStore(step)
    THEN Save("SaveMessage", SaveMessageData(Data, msgUrl, TimeNow(clock + 1)), msgUrl, outcome)
    ELSE UNCHANGED storeVars

\* Entry: if s.Store.IsMessaged(profileURL) { return nil }
SendFollowUp ==
    /\ msgPc = "idle"
    /\ ~loadErr /\ clock < MaxClock
    /\ \E url \in URLs :
          /\ msgUrl' = url
          /\ msgEvents' = <<>>
          /\ entryStore' = [Data |-> Data, file |-> file]
          /\ IF IsMessaged(Data, url)
             THEN MsgReturn(Nil)
             ELSE msgRet' = "running" /\ msgPc' = "navigate"
    /\ UNCHANGED <<storeVars, sendClicks, notMessaging>>

\* s.Browser.NavigateTo(profileURL)
FollowUpNavigate ==
    /\ msgPc = "navigate"
    /\ \E run \in NavRuns :
          /\ msgEvents' = msgEvents \o Navigations(run, NavigateProfile(msgUrl))
          /\ IF run.ok
             THEN msgPc' = "message" /\ UNCHANGED msgRet /\ FollowUpStore("navigate", "ok")
             ELSE MsgReturn(ErrNavigate) /\ UNCHANGED storeVars
    /\ UNCHANGED <<msgUrl, entryStore, sendClicks, notMessaging>>

\* The Message button: ElementX, HumanMove, Click.
FollowUpMessageButton ==
    /\ msgPc = "message"
    /\ \E found \in BOOLEAN :
          IF found
          THEN /\ msgEvents' = msgEvents \o
                       <<Query(SelMessageBtn), Move(SelMessageBtn), Click(SelMessageBtn)>>
               /\ msgPc' = "input"
               /\ UNCHANGED msgRet
               /\ FollowUpStore("message", "ok")
          ELSE /\ msgEvents' = Append(msgEvents, Query(SelMessageBtn))
               /\ MsgReturn(ErrMessageBtn)
               /\ UNCHANGED storeVars
    /\ UNCHANGED <<msgUrl, entryStore, sendClicks, notMessaging>>

\* The input box, by its role and label or else by its class; then the h1 of the page.
FollowUpInputBox ==
    /\ msgPc = "input"
    /\ \E byLabel \in BOOLEAN, byClass \in BOOLEAN :
          IF byLabel
          THEN /\ msgEvents' = msgEvents \o <<Query(SelWriteBox), Query(SelH1)>>
               /\ msgPc' = "type label"
               /\ UNCHANGED msgRet
               /\ FollowUpStore("input", "ok")
          ELSE IF byClass
          THEN /\ msgEvents' = msgEvents \o <<Query(SelWriteBox), Query(SelMsgForm), Query(SelH1)>>
               /\ msgPc' = "type class"
               /\ UNCHANGED msgRet
               /\ FollowUpStore("input", "ok")
          ELSE /\ msgEvents' = msgEvents \o <<Query(SelWriteBox), Query(SelMsgForm)>>
               /\ MsgReturn(ErrInputBox)
               /\ UNCHANGED storeVars
    /\ UNCHANGED <<msgUrl, entryStore, sendClicks, notMessaging>>

\* s.Browser.HumanType(inputBox, msg): fails only if the box cannot be focused.
FollowUpType ==
    /\ msgPc \in {"type label", "type class"}
    /\ LET inputBox == IF msgPc = "type label" THEN SelWriteBox ELSE SelMsgForm
       IN  \E focused \in BOOLEAN :
              IF focused
              THEN /\ msgEvents' = msgEvents \o <<Focus(inputBox), Type(inputBox)>>
                   /\ msgPc' = "send"
                   /\ UNCHANGED msgRet
                   /\ FollowUpStore("type", "ok")
              ELSE /\ msgEvents' = Append(msgEvents, Focus(inputBox))
                   /\ MsgReturn(ErrFocus)
                   /\ UNCHANGED storeVars
    /\ UNCHANGED <<msgUrl, entryStore, sendClicks, notMessaging>>

\* The send button: the submit button if found and visible, else the button with the text
\* "Send"; HumanMove and Click; then SaveMessage, whose error is dropped.
FollowUpSend ==
    /\ msgPc = "send"
    /\ \E submit \in ProbeResults, byText \in BOOLEAN, outcome \in PersistOutcomes :
          LET sendBtn == IF FoundAndVisible(submit) THEN SelSubmit
                         ELSE IF byText THEN SelSendText ELSE Nil
              probes == IF FoundAndVisible(submit) THEN <<Query(SelSubmit)>>
                        ELSE <<Query(SelSubmit), Query(SelSendText)>>
          IN  IF sendBtn = Nil
              THEN /\ msgEvents' = msgEvents \o probes
                   /\ MsgReturn(ErrSendMsg)
                   /\ UNCHANGED <<storeVars, sendClicks>>
              ELSE /\ msgEvents' = msgEvents \o probes \o <<Move(sendBtn), Click(sendBtn)>>
                   /\ sendClicks' = [sendClicks EXCEPT ![msgUrl] = @ + 1]
                   /\ FollowUpStore("send", outcome)
                   /\ MsgReturn(Nil)
    /\ UNCHANGED <<msgUrl, entryStore, notMessaging>>

\* A process that has opened its store and built the messaging service; earlier runs may
\* have recorded connection requests.
InitFollowUp ==
    /\ \E prior \in SUBSET URLs :
          LET loaded == [EmptyData EXCEPT
                            !.Requests = [u \in prior |-> [wall |-> 0, mono |-> FALSE]]]
          IN  /\ Data = loaded
              /\ file = IF prior = {} THEN NoFile ELSE [state |-> "ok", doc |-> Marshal(loaded)]
              /\ entryStore = [Data |-> loaded, file |-> file]
    /\ clock = 0
    /\ loadErr = FALSE
    /\ lastPersist = "none"
    /\ lastOp = [op |-> "NewJSONStore", url |-> NoOp.url]
    /\ msgPc = "idle"
    /\ msgUrl = NoOp.url
    /\ msgEvents = <<>>
    /\ msgRet = "none"
    /\ sendClicks = [u \in URLs |-> 0]

(***************************************************************************)
(* storage.MemoryStore under concurrent callers.                           *)
(*                                                                         *)
(* Every method takes s.mu first (Lock in the Save methods and Close,      *)
(* RLock in the Is methods) and releases it by a deferred Unlock/RUnlock.  *)
(* A Save method is two steps under the lock: the map assignment, then     *)
(* persist().                                                              *)
(***************************************************************************)
Callers == 1..NumCallers
WriteOps == {"SaveRequest", "SaveMessage", "SaveConnection", "Close"}
ReadOps == {"IsRequestSent", "IsMessaged", "IsConnected"}
CallURL == ProfileURLs[1]

NoCall == [pc |-> "idle", op |-> "none", result |-> FALSE]
Unlocked == [writer |-> 0, readers |-> {}]

\* Mutant: the write lock is granted while readers hold the lock.
CanLockShared(m) == m.writer = 0

\* s.mu.Lock() returns when no goroutine holds the lock in either mode.
CanLock(m) == m.writer = 0 /\ m.readers = {}

\* s.mu.RLock() returns when no goroutine holds the write lock.
CanRLock(m) == m.writer = 0

\* Save* calls that have not read the clock yet.
PendingMarks ==
    Cardinality({t \in Callers : /\ callers[t].op \in WriteOps \ {"Close"}
                                 /\ callers[t].pc \in {"lock", "update"}})

\* A goroutine calls a method of the store.
StoreCall(t) ==
    /\ callers[t].pc = "idle"
    /\ \E op \in WriteOps \cup ReadOps :
          /\ op \in WriteOps \ {"Close"} => clock + PendingMarks < MaxClock
          /\ callers' = [callers EXCEPT ![t] = [pc |-> "lock", op |-> op, result |-> FALSE]]
    /\ UNCHANGED <<mu, storeVars, msgVars, connectVars, retryVars, loginVars, mainVars, scrollVars, mouseVars, typeVars, jitterVars, searchVars, wfVars>>

\* s.mu.Lock() / s.mu.RLock()
StoreLock(t) ==
    /\ callers[t].pc = "lock"
    /\ IF callers[t].op \in WriteOps
       THEN /\ CanLock(mu)
            /\ mu' = [mu EXCEPT !.writer = t]
            /\ callers' = [callers EXCEPT
                              ![t].pc = IF callers[t].op = "Close" THEN "persist" ELSE "update"]
       ELSE /\ CanRLock(mu)
            /\ mu' = [mu EXCEPT !.readers = @ \cup {t}]
            /\ callers' = [callers EXCEPT ![t].pc = "read"]
    /\ UNCHANGED <<storeVars, msgVars, connectVars, retryVars, loginVars, mainVars, scrollVars, mouseVars, typeVars, jitterVars, searchVars, wfVars>>

\* s.Data.<map>[profileURL] = time.Now()
StoreUpdate(t) ==
    /\ callers[t].pc = "update"
    /\ LET now == TimeNow(clock + 1)
           op == callers[t].op
       IN  Data' = IF op = "SaveRequest" THEN SaveRequestData(Data, CallURL, now)
                   ELSE IF op = "SaveMessage" THEN SaveMessageData(Data, CallURL, now)
                   ELSE SaveConnectionData(Data, CallURL, now)
    /\ clock' = clock + 1
    /\ callers' = [callers EXCEPT ![t].pc = "persist"]
    /\ UNCHANGED <<mu, file, loadErr, lastPersist, lastOp, msgVars,
                   connectVars, retryVars, loginVars, mainVars, scrollVars, mouseVars, typeVars, jitterVars, searchVars, wfVars>>

\* return s.persist()
StorePersist(t) ==
    /\ callers[t].pc = "persist"
    /\ \E outcome \in PersistOutcomes :
          /\ file' = Persist(Data, file, outcome)
          /\ callers' = [callers EXCEPT ![t].pc = "unlock", ![t].result = (outcome = "ok")]
    /\ UNCHANGED <<mu, Data, clock, loadErr, lastPersist, lastOp, msgVars,
                   connectVars, retryVars, loginVars, mainVars, scrollVars, mouseVars, typeVars, jitterVars, searchVars, wfVars>>

\* _, exists := s.Data.<map>[profileURL]
StoreRead(t) ==
    /\ callers[t].pc = "read"
    /\ LET op == callers[t].op
           exists == IF op = "IsRequestSent" THEN IsRequestSent(Data, CallURL)
                     ELSE IF op = "IsMessaged" THEN IsMessaged(Data, CallURL)
                     ELSE IsConnected(Data, CallURL)
       IN  callers' = [callers EXCEPT ![t].pc = "unlock", ![t].result = exists]
    /\ UNCHANGED <<mu, storeVars, msgVars, connectVars, retryVars, loginVars, mainVars, scrollVars, mouseVars, typeVars, jitterVars, searchVars, wfVars>>

\* The deferred s.mu.Unlock() / s.mu.RUnlock(), and the return.
StoreUnlock(t) ==
    /\ callers[t].pc = "unlock"
    /\ mu' = IF callers[t].op \in WriteOps
             THEN [mu EXCEPT !.writer = 0]
             ELSE [mu EXCEPT !.readers = @ \ {t}]
    /\ callers' = [callers EXCEPT ![t] = NoCall]
    /\ UNCHANGED <<storeVars, msgVars, connectVars, retryVars, loginVars, mainVars, scrollVars, mouseVars, typeVars, jitterVars, searchVars, wfVars>>

(***************************************************************************)
(* main: the life of the process and of the browser it launches.           *)
(*                                                                         *)
(* os.Exit ends the process at once: deferred calls are not run.  A return *)
(* from main runs them, last registered first.                             *)
(***************************************************************************)
Modes == {"connect", "message"}
ConfigResults == {"failed", "credentials", "profile dir"}
MaxProfiles == 2        \* profiles a search returns

Running == [how |-> "running", code |-> 0]

\* os.Exit(1)
Exit1(log) ==
    /\ mainLog' = Append(log, "os.Exit(1)")
    /\ mainExit' = [how |-> "os.Exit", code |-> 1]
    /\ mainPc' = "exited"

\* The effect of the deferred calls on the browser process, last registered first.
RECURSIVE RunDefers(_, _)
RunDefers(ds, proc) ==
    IF ds = <<>> THEN proc
    ELSE RunDefers(SubSeq(ds, 1, Len(ds) - 1),
                   IF ds[Len(ds)] = "b.Close()" THEN "closed" ELSE proc)
RECURSIVE Reverse(_)
Reverse(q) == IF q = <<>> THEN <<>> ELSE Append(Reverse(Tail(q)), Head(q))

\* The errors Login can return to main: with a username and a password configured every
\* error but the missing-credentials one.
LoginErrors(config) ==
    {ErrLoginNavigate, ErrUserField, ErrUserVisible, ErrPassField, ErrPassVisible, ErrInput,
     ErrSignIn, ErrChallenge, ErrTimeout}
    \cup {ErrLoginFailed(t) : t \in ErrorTexts}
    \cup (IF config = "profile dir" THEN {ErrCredentials} ELSE {})

\* log.Info("Starting ...") and the warning outside business hours
Started == IF mainIn.businessHours THEN <<"start">> ELSE <<"start", "outside business hours">>

\* config.LoadConfig; on an error cfg is an empty Config, which has neither a username
\* nor a user data dir.
MainLoadConfig ==
    /\ mainPc = "config"
    /\ IF mainIn.config = "failed"
       THEN Exit1(Started \o <<"config defaults">>)
       ELSE /\ mainLog' = Started \o <<"config loaded">>
            /\ mainPc' = "browser"
            /\ UNCHANGED mainExit
    /\ UNCHANGED <<mainIn, browserProc, defers, notMain>>

\* browser.New and defer b.Close()
MainBrowserNew ==
    /\ mainPc = "browser"
    /\ \E launched \in BOOLEAN, viewport \in BOOLEAN :
          IF ~launched
          THEN /\ Exit1(Append(mainLog, "launch failed"))
               /\ UNCHANGED <<browserProc, defers>>
          ELSE IF ~viewport
          THEN /\ browserProc' = "closed"
               /\ Exit1(mainLog \o <<"launch", "viewport failed", "browser.Close()">>)
               /\ UNCHANGED defers
          ELSE /\ browserProc' = "open"
               /\ defers' = Append(defers, "b.Close()")
               /\ mainLog' = Append(mainLog, "launch")
               /\ mainPc' = "login"
               /\ UNCHANGED mainExit
    /\ UNCHANGED <<mainIn, notMain>>

\* authenticator.Login()
MainLogin ==
    /\ mainPc = "login"
    /\ \E r \in {LoginOk} \cup LoginErrors(mainIn.config) :
          IF r = LoginOk
          THEN /\ mainLog' = Append(mainLog, "login")
               /\ mainPc' = "storage"
               /\ UNCHANGED mainExit
          ELSE Exit1(mainLog \o <<"login failed", r.kind, "screenshot">>)
    /\ UNCHANGED <<mainIn, browserProc, defers, notMain>>

\* storage.NewJSONStore("state.json") and defer store.Close()
MainStorage ==
    /\ mainPc = "storage"
    /\ \E ok \in BOOLEAN :
          IF ok
          THEN /\ defers' = Append(defers, "store.Close()")
               /\ mainLog' = Append(mainLog, "store")
               /\ mainPc' = "workflow"
               /\ UNCHANGED mainExit
          ELSE /\ Exit1(Append(mainLog, "store failed"))
               /\ UNCHANGED defers
    /\ UNCHANGED <<mainIn, browserProc, notMain>>

\* RunFollowUpWorkflow (which does nothing) or RunConnectWorkflow
MainWorkflow ==
    /\ mainPc = "workflow"
    /\ IF mainIn.mode = "message"
       THEN /\ mainLog' = Append(mainLog, "follow-up workflow")
            /\ mainPc' = "finish"
            /\ UNCHANGED mainExit
       ELSE \E searched \in BOOLEAN, numCandidates \in 0..MaxProfiles, sent \in BOOLEAN :
               IF ~searched
               THEN Exit1(Append(mainLog, "search failed"))
               ELSE /\ mainLog' = mainLog \o
                           (IF numCandidates = 0 THEN <<"search", "no candidates">>
                            ELSE IF sent THEN <<"search", "request sent", "SaveRequest">>
                            ELSE <<"search", "request failed">>)
                    /\ mainPc' = "finish"
                    /\ UNCHANGED mainExit
    /\ UNCHANGED <<mainIn, browserProc, defers, notMain>>

\* fmt.Scanln() and the return from main, which runs the deferred calls.
MainReturn ==
    /\ mainPc = "finish"
    /\ browserProc' = RunDefers(defers, browserProc)
    /\ mainLog' = mainLog \o Reverse(defers)
    /\ defers' = <<>>
    /\ mainExit' = [how |-> "return", code |-> 0]
    /\ mainPc' = "exited"
    /\ UNCHANGED <<mainIn, notMain>>

InitMain ==
    /\ mainIn \in [mode : Modes, config : ConfigResults, businessHours : BOOLEAN]
    /\ mainPc = "config"
    /\ browserProc = "none"
    /\ defers = <<>>
    /\ mainLog = <<>>
    /\ mainExit = Running

InitMainIdle ==
    /\ mainIn = [mode |-> "connect", config |-> "failed", businessHours |-> TRUE]
    /\ mainPc = "off"
    /\ browserProc = "none"
    /\ defers = <<>>
    /\ mainLog = <<>>
    /\ mainExit = Running

(***************************************************************************)
(* browser.Browser.HumanScroll                                             *)
(*                                                                         *)
(* Distances are pixels.  The log holds one entry per direct Mouse.Scroll  *)
(* call, one entry per chunk (its sub-steps, each a Mouse.Scroll of        *)
(* chunk/steps scaled by a factor drawn from [0.8, 1.2), are summed up in  *)
(* the entry), and one entry per pause between chunks.  Scrolled amounts   *)
(* are kept doubled, because a scroll-back is half a chunk.                *)
(***************************************************************************)
Abs(x) == IF x < 0 THEN 0 - x ELSE x
Sign(x) == IF x < 0 THEN 0 - 1 ELSE 1

\* The requests: every small one, and larger ones a fixed stride apart.
ScrollStride == 37
DeltaYs == {d \in (0 - MaxScroll)..MaxScroll : Abs(d) <= 101 \/ d % ScrollStride = 0}

\* 100.0 + rand.Float64()*200.0
ChunkSizes == {100, 180, 299}
\* the sum over a chunk's sub-steps of 0.8 + rand.Float64()*0.4, in percent of the chunk
Jitters == {80, 100, 119}

ScrollEvent(dy) == [kind |-> "scroll", twice |-> 2 * dy, chunk |-> 0, n |-> 1]
ChunkSteps(chunk, steps, jitter) ==
    [kind |-> "steps", twice |-> Sign(chunk) * ((2 * Abs(chunk) * jitter) \div 100),
     chunk |-> chunk, n |-> steps]
ScrollBack(chunk) == [kind |-> "back", twice |-> 0 - chunk, chunk |-> 0, n |-> 1]
ScrollForward(chunk) == [kind |-> "forward", twice |-> chunk, chunk |-> 0, n |-> 1]
ScrollSleep(what) == [kind |-> what, twice |-> 0, chunk |-> 0, n |-> 0]

\* Mutant: only requests below 50 pixels are scrolled in one go.
IsSmallHalf(d) == Abs(d) < 50

\* math.Abs(deltaY) < 100
IsSmall(d) == Abs(d) < 100

\* Mutant: the loop goes on while remaining is positive.
LoopOpenPositive(rem) == rem > 0

\* for math.Abs(remaining) > 0
LoopOpen(rem) == Abs(rem) > 0

\* if math.Abs(chunk) > math.Abs(remaining) { chunk = remaining }
Clip(chunk, rem) == IF Abs(chunk) > Abs(rem) THEN rem ELSE chunk

\* steps := int(math.Abs(chunk) / 10); if steps < 5 { steps = 5 }
SubSteps(chunk) == IF Abs(chunk) \div 10 < 5 THEN 5 ELSE Abs(chunk) \div 10

\* Entry of HumanScroll: a small request is one Mouse.Scroll.
HumanScroll ==
    /\ scrollPc = "call"
    /\ IF IsSmall(deltaY)
       THEN /\ scrollLog' = <<ScrollEvent(deltaY)>>
            /\ scrollPc' = "done"
            /\ UNCHANGED <<remaining, currentScroll>>
       ELSE /\ remaining' = deltaY
            /\ currentScroll' = 0
            /\ scrollPc' = "loop"
            /\ UNCHANGED scrollLog
    /\ UNCHANGED <<deltaY, notScroll>>

\* One iteration of the loop: a chunk, perhaps a scroll-back, and the pause.
ScrollChunk ==
    /\ scrollPc = "loop"
    /\ LoopOpen(remaining)
    /\ \E size \in ChunkSizes, jitter \in Jitters, back \in BOOLEAN :
          LET chunk == Clip(size * Sign(deltaY), remaining)
              scrolled == currentScroll + chunk
              correction == IF back /\ Abs(scrolled) > 300
                            THEN <<ScrollBack(chunk), ScrollSleep("read"),
                                   ScrollForward(chunk), ScrollSleep("resume")>>
                            ELSE <<>>
          IN  /\ scrollLog' = scrollLog \o <<ChunkSteps(chunk, SubSteps(chunk), jitter)>>
                                        \o correction \o <<ScrollSleep("flick")>>
              /\ remaining' = remaining - chunk
              /\ currentScroll' = scrolled
    /\ UNCHANGED <<deltaY, scrollPc, notScroll>>

\* The loop condition fails: return nil.
ScrollReturn ==
    /\ scrollPc = "loop"
    /\ ~LoopOpen(remaining)
    /\ scrollPc' = "done"
    /\ UNCHANGED <<deltaY, remaining, currentScroll, scrollLog, notScroll>>

InitScroll ==
    /\ deltaY \in DeltaYs
    /\ scrollPc = "call"
    /\ remaining = 0
    /\ currentScroll = 0
    /\ scrollLog = <<>>

InitScrollIdle ==
    /\ deltaY = 0
    /\ scrollPc = "off"
    /\ remaining = 0
    /\ currentScroll = 0
    /\ scrollLog = <<>>

(***************************************************************************)
(* browser.Browser.HumanMove and moveMouseAlongPath                        *)
(*                                                                         *)
(* Coordinates are pixels.  Random draws are percentages.  The eased       *)
(* progress and the weights of the Bezier curve are fixed-point numbers    *)
(* with FixedOne for 1.0; the linear progress of a sample is the exact     *)
(* fraction i/steps.                                                       *)
(***************************************************************************)
FixedOne == 1000
Point(x, y) == [x |-> x, y |-> y]
Origin == Point(0, 0)

\* The bounding boxes element.Shape() answers with, when it answers.
Boxes == {[x |-> 100, y |-> 50, w |-> 50, h |-> 50], [x |-> 200, y |-> 150, w |-> 100, h |-> 50]}
\* rand.Float64() for the offset inside the box, in percent
OffsetDraws == {0, 90}
\* rand.Float64() for the two control points (p1x, p1y, p2x, p2y), in percent
ControlDraws == {<<50, 50, 50, 50>>, <<0, 90, 90, 0>>}
\* speed := 800.0 + rand.Float64()*400.0
Speeds == {800, 1180}

ErrShape == "shape: element has no bounding box"
\* rect.X of a nil rect: element.Shape() answered a shape without a quad, of which Box()
\* is nil.  The panic is not recovered.
ErrNilBox == "panic: runtime error: invalid memory address or nil pointer dereference"

\* The integer part of the square root.
RECURSIVE SqrtBetween(_, _, _)
SqrtBetween(n, lo, hi) ==
    IF lo >= hi THEN lo
    ELSE LET mid == (lo + hi + 1) \div 2
         IN  IF mid * mid <= n THEN SqrtBetween(n, mid, hi) ELSE SqrtBetween(n, lo, mid - 1)
ISqrt(n) == SqrtBetween(n, 0, 46340)

\* rect.X + rect.Width/2 and rect.Y + rect.Height/2
Center(box) == Point(box.x + box.w \div 2, box.y + box.h \div 2)

\* center + (rand.Float64()-0.5) * size * 0.8
Target(box, rx, ry) ==
    Point(Center(box).x + ((rx - 50) * box.w * 8) \div 1000,
          Center(box).y + ((ry - 50) * box.h * 8) \div 1000)

\* The square of math.Hypot(endX-startX, endY-startY)
Dist2(a, b) == (b.x - a.x) * (b.x - a.x) + (b.y - a.y) * (b.y - a.y)

\* Mutant: no floor of 10 steps.
RaiseToFloorNot(steps) == steps

\* if steps < 10 { steps = 10 }
RaiseToFloor(steps) == IF steps < 10 THEN 10 ELSE steps

\* duration := dist / speed, at least 0.1; steps := int(duration * 60), at least 10
Steps(dist2, speed) ==
    RaiseToFloor(IF 100 * dist2 < speed * speed THEN 6
                 ELSE ISqrt(3600 * dist2) \div speed)

\* The ease-in-out cubic of t = i/steps.
Ease(i, steps) ==
    IF 2 * i < steps
    THEN (4 * i * i * i * FixedOne) \div (steps * steps * steps)
    ELSE FixedOne - ((2 * steps - 2 * i) * (2 * steps - 2 * i) * (2 * steps - 2 * i) * FixedOne)
                        \div (2 * steps * steps * steps)

\* cubicBezier: one coordinate of the curve at the eased progress e.
Bezier(e, p0, p1, p2, p3) ==
    LET m == FixedOne - e
        w0 == (m * m * m) \div (FixedOne * FixedOne)
        w1 == (3 * m * m * e) \div (FixedOne * FixedOne)
        w2 == (3 * m * e * e) \div (FixedOne * FixedOne)
        w3 == (e * e * e) \div (FixedOne * FixedOne)
    IN  (w0 * p0 + w1 * p1 + w2 * p2 + w3 * p3) \div FixedOne

\* Mutant: the loop stops before the last sample.
SampleIndicesOpen(steps) == 0..(steps - 1)

\* for i := 0; i <= steps; i++
SampleIndices(steps) == 0..steps

\* moveMouseAlongPath: the Mouse.MoveTo calls, in order.
MousePath(start, end, ctrl, speed) ==
    LET dist2 == Dist2(start, end)
        dist == ISqrt(dist2)
        disp(r) == ((r - 50) * dist * 2) \div 1000
        p1 == Point(start.x + ((end.x - start.x) * 3) \div 10 + disp(ctrl[1]),
                    start.y + ((end.y - start.y) * 3) \div 10 + disp(ctrl[2]))
        p2 == Point(start.x + ((end.x - start.x) * 7) \div 10 + disp(ctrl[3]),
                    start.y + ((end.y - start.y) * 7) \div 10 + disp(ctrl[4]))
        steps == Steps(dist2, speed)
        last == CHOOSE n \in SampleIndices(steps) : \A k \in SampleIndices(steps) : k <= n
    IN  [k \in 1..(last + 1) |->
            LET e == Ease(k - 1, steps)
            IN  [i |-> k - 1, steps |-> steps, ease |-> e,
                 x |-> Bezier(e, start.x, p1.x, p2.x, end.x),
                 y |-> Bezier(e, start.y, p1.y, p2.y, end.y)]]

NoMove == [n |-> 0, shape |-> 0, shapeErr |-> Nil, quads |-> FALSE, err |-> "none",
           start |-> Origin, center |-> Origin, target |-> Origin,
           dist2 |-> 0, speed |-> 0, steps |-> 0, path |-> <<>>, moveToErr |-> FALSE]
NoSummary == [dist2 |-> 0, speed |-> 0, steps |-> 0]
Summary(m) == [dist2 |-> m.dist2, speed |-> m.speed, steps |-> m.steps]

\* if err != nil { return err }
ReturnsOnError(err) == err # Nil

\* Mutant: the tracked position becomes the centre of the box.
TrackedAfterCenter(target, center) == center

\* b.LastMouseX = targetX; b.LastMouseY = targetY
TrackedAfter(target, center) == target

\* One HumanMove call.  element.Shape() answers an error, a shape without a quad or a
\* shape with its box; some of the Mouse.MoveTo calls of moveMouseAlongPath may answer
\* an error (moveToErr), which is dropped.  No call follows a panic.
HumanMove ==
    /\ move.n < MaxMoves
    /\ move.err # ErrNilBox
    /\ \E shapeErr \in {Nil, ErrShape}, quads \in BOOLEAN, box \in Boxes, rx \in OffsetDraws,
          ry \in OffsetDraws, ctrl \in ControlDraws, speed \in Speeds, moveToErr \in BOOLEAN :
        /\ shapeErr = ErrShape => ~quads
        /\ ~quads =>
              /\ box = CHOOSE b \in Boxes : TRUE
              /\ rx = 0 /\ ry = 0 /\ speed = 800 /\ ctrl = <<50, 50, 50, 50>>
              /\ ~moveToErr
        /\ IF ReturnsOnError(shapeErr)
           THEN /\ move' = [NoMove EXCEPT !.n = move.n + 1, !.shape = 1,
                                        !.shapeErr = shapeErr, !.err = shapeErr,
                                        !.start = LastMouse]
                /\ UNCHANGED <<LastMouse, prevMove>>
           ELSE IF ~quads
           THEN /\ move' = [NoMove EXCEPT !.n = move.n + 1, !.shape = 1,
                                        !.shapeErr = shapeErr, !.err = ErrNilBox,
                                        !.start = LastMouse]
                /\ UNCHANGED <<LastMouse, prevMove>>
           ELSE LET target == Target(box, rx, ry)
                    path == MousePath(LastMouse, target, ctrl, speed)
                IN  /\ move' = [n |-> move.n + 1, shape |-> 1, shapeErr |-> shapeErr,
                                quads |-> TRUE, err |-> Nil, start |-> LastMouse,
                                center |-> Center(box), target |-> target,
                                dist2 |-> Dist2(LastMouse, target), speed |-> speed,
                                steps |-> Steps(Dist2(LastMouse, target), speed), path |-> path,
                                moveToErr |-> moveToErr]
                    /\ LastMouse' = TrackedAfter(target, Center(box))
                    /\ prevMove' = IF move.err = Nil THEN Summary(move) ELSE prevMove
    /\ UNCHANGED notMouse

InitMouse ==
    /\ LastMouse = Origin
    /\ move = NoMove
    /\ prevMove = NoSummary

InitMouseIdle == InitMouse

(***************************************************************************)
(* browser.Browser.HumanType                                               *)
(*                                                                         *)
(* A Go string is a sequence of bytes; []rune(text) decodes it as UTF-8    *)
(* and string(char) encodes one code point.  The bytes of the model are    *)
(* those of one- and two-byte sequences; code points are numbers.          *)
(***************************************************************************)
\* 'a', ' ', and the two bytes of U+00E9, each of which is invalid on its own
TextBytes == {97, 32, 195, 169}
RuneError == 65533
Space == 32
Backspace == "Backspace"

RECURSIVE SeqsUpTo(_, _)
SeqsUpTo(S, n) ==
    IF n = 0 THEN {<<>>}
    ELSE LET shorter == SeqsUpTo(S, n - 1)
         IN  shorter \cup {Append(t, b) : t \in {u \in shorter : Len(u) = n - 1}, b \in S}
Texts == SeqsUpTo(TextBytes, MaxText)

IsContinuation(b) == b >= 128 /\ b <= 191
IsLead2(b) == b >= 194 /\ b <= 223

\* []rune(text): a byte that does not start a valid sequence becomes U+FFFD
RECURSIVE Runes(_)
Runes(text) ==
    IF text = <<>> THEN <<>>
    ELSE IF text[1] < 128 THEN <<text[1]>> \o Runes(Tail(text))
    ELSE IF IsLead2(text[1]) /\ Len(text) >= 2 /\ IsContinuation(text[2])
         THEN <<(text[1] - 192) * 64 + (text[2] - 128)>> \o Runes(Tail(Tail(text)))
    ELSE <<RuneError>> \o Runes(Tail(text))

\* string(char)
EncodeRune(r) ==
    IF r < 128 THEN <<r>>
    ELSE IF r < 2048 THEN <<192 + (r \div 64), 128 + (r % 64)>>
    ELSE <<224 + (r \div 4096), 128 + ((r \div 64) % 64), 128 + (r % 64)>>

\* typoRate := 0.05, and the rand.Float64() of a character, in percent
TypoRate == 5
TypeDraws == {4, 5, 50}
SimulatesTypoAtRate(r) == r <= TypoRate
SimulatesTypo(r) == r < TypoRate

\* pickWrongChar: a character of the pool that is not the correct one
WrongPool == {97, 120}
pickWrongChar(correct) == {r \in WrongPool : r # correct}

FocusResults == {Nil, ErrFocus}
FocusElement == <<"Focus">>
InsertText(bytes) == <<"InsertText", bytes>>
Press(key) == <<"Press", key>>
TypeSleep(what) == <<"Sleep", what>>

\* The calls of one iteration of the loop.
Typo(wrong) ==
    <<InsertText(EncodeRune(wrong)), TypeSleep("realization"),
      Press(Backspace), TypeSleep("correction")>>
Keystroke(char) ==
    <<InsertText(EncodeRune(char)), TypeSleep("type")>>
        \o (IF char = Space THEN <<TypeSleep("word")>> ELSE <<>>)

\* The call, up to the loop: Focus and the conversion of the text.
HumanType ==
    /\ typePc = "call"
    /\ typeLog' = <<FocusElement>>
    /\ IF typeIn.focus # Nil
       THEN /\ typeRet' = typeIn.focus
            /\ typePc' = "done"
            /\ UNCHANGED <<typeChars, typeI>>
       ELSE /\ typeChars' = Runes(typeIn.text)
            /\ typeI' = 0
            /\ typePc' = "loop"
            /\ UNCHANGED typeRet
    /\ UNCHANGED <<typeIn, typeDraws, typeFailed, typeField>>
    /\ UNCHANGED notType

\* The calls of an iteration that can answer an error: every b.Page.InsertText and
\* b.Page.Keyboard.Press.  Their results are discarded.  CallFailures is every set of
\* positions in the events of the iteration at which such a call answers an error, as
\* long as no more than MaxCallErrors calls of the HumanType do; n counts them.
NoFailure == [at |-> 0, call |-> "none", n |-> 0]
CallFailures(evs, sofar) ==
    {f \in SUBSET {k \in DOMAIN evs : evs[k][1] \in {"InsertText", "Press"}} :
        sofar + Cardinality(f) <= MaxCallErrors}
FirstFailure(failed, i, call, errors) ==
    IF call = "none" THEN failed
    ELSE IF failed = NoFailure THEN [at |-> i + 1, call |-> call, n |-> errors]
    ELSE [failed EXCEPT !.n = @ + errors]
FirstFailed(evs, fails) ==
    IF fails = {} THEN "none"
    ELSE evs[CHOOSE k \in fails : \A j \in fails : k <= j][1]

\* What the page does with the events evs from position k on: an InsertText that
\* succeeds adds its text at the caret, a Backspace that succeeds removes the character
\* before it, and a call that answers an error changes nothing.
RECURSIVE PageAfter(_, _, _, _)
PageAfter(field, evs, fails, k) ==
    IF k > Len(evs) THEN field
    ELSE IF k \in fails THEN PageAfter(field, evs, fails, k + 1)
    ELSE IF evs[k][1] = "InsertText" THEN PageAfter(Append(field, evs[k][2]), evs, fails, k + 1)
    ELSE IF evs[k][1] = "Press"
         THEN PageAfter(IF field = <<>> THEN field ELSE SubSeq(field, 1, Len(field) - 1),
                        evs, fails, k + 1)
    ELSE PageAfter(field, evs, fails, k + 1)

\* One iteration of the loop.
TypeChar ==
    /\ typePc = "loop"
    /\ typeI < Len(typeChars)
    /\ LET char == typeChars[typeI + 1]
       IN  \E r \in TypeDraws :
               /\ typeDraws' = Append(typeDraws, r)
               /\ \E wrong \in pickWrongChar(char) :
                     LET evs == IF SimulatesTypo(r) THEN Typo(wrong) \o Keystroke(char)
                                ELSE Keystroke(char)
                     IN  /\ ~SimulatesTypo(r) => \A w \in pickWrongChar(char) : wrong <= w
                         /\ typeLog' = typeLog \o evs
                         /\ \E fails \in CallFailures(evs, typeFailed.n) :
                               /\ typeFailed' = FirstFailure(typeFailed, typeI,
                                                             FirstFailed(evs, fails),
                                                             Cardinality(fails))
                               /\ typeField' = PageAfter(typeField, evs, fails, 1)
    /\ typeI' = typeI + 1
    /\ UNCHANGED <<typeIn, typePc, typeChars, typeRet>>
    /\ UNCHANGED notType

\* The loop is over.
TypeReturn ==
    /\ typePc = "loop"
    /\ typeI >= Len(typeChars)
    /\ typeRet' = Nil
    /\ typePc' = "done"
    /\ UNCHANGED <<typeIn, typeChars, typeI, typeLog, typeDraws, typeFailed, typeField>>
    /\ UNCHANGED notType

InitTypeState ==
    /\ typePc = "call"
    /\ typeChars = <<>>
    /\ typeI = 0
    /\ typeLog = <<>>
    /\ typeDraws = <<>>
    /\ typeRet = "none"
    /\ typeFailed = NoFailure
    /\ typeField = <<>>
InitType ==
    /\ typeIn \in [text : Texts, focus : FocusResults]
    /\ InitTypeState
InitTypeIdle ==
    /\ typeIn = [text |-> <<>>, focus |-> Nil]
    /\ InitTypeState

InitLock ==
    /\ mu = Unlocked
    /\ callers = [t \in Callers |-> NoCall]

InitLockIdle == InitLock


(***************************************************************************)
(* stealth.RandomDuration, SleepRandom and SleepWithJitter                 *)
(*                                                                         *)
(* Durations are integers (nanoseconds, as time.Duration); the deviation   *)
(* is in percent.                                                          *)
(***************************************************************************)
Bases == (0 - NegBase)..MaxBase
Deviations == {0 - 50, 0, 20, 100, 150}

\* time.Duration(x) of a float64: the fraction is dropped, towards zero
Trunc(n, d) == IF n >= 0 THEN n \div d ELSE 0 - ((0 - n) \div d)

\* RandomDuration(min, max): the values it can return
RandomDuration(min, max) ==
    IF min >= max THEN {min}
    ELSE {min + r : r \in 0..(max - min - 1)}

\* if deviation < 0 { deviation = 0 }
ClampDeviation(deviation) == IF deviation < 0 THEN 0 ELSE deviation
\* delta := time.Duration(float64(base) * deviation)
JitterDelta(base, deviation) == Trunc(base * deviation, 100)
\* if min < 0 { min = 0 }
ClampMinNever(min) == min
ClampMin(min) == IF min < 0 THEN 0 ELSE min

JitterRange(base, deviation) ==
    LET delta == JitterDelta(base, ClampDeviation(deviation))
    IN  [min |-> ClampMin(base - delta), max |-> base + delta]

SleepWithJitter ==
    /\ jitterPc = "call"
    /\ LET range == JitterRange(jitterIn.base, jitterIn.deviation)
       IN  \E d \in RandomDuration(range.min, range.max) : jitterSlept' = d
    /\ jitterPc' = "done"
    /\ UNCHANGED jitterIn
    /\ UNCHANGED notJitter

InitJitter ==
    /\ jitterIn \in [base : Bases, deviation : Deviations]
    /\ jitterPc = "call"
    /\ jitterSlept = 0
InitJitterIdle ==
    /\ jitterIn = [base |-> 0, deviation |-> 0]
    /\ jitterPc = "call"
    /\ jitterSlept = 0


(***************************************************************************)
(* search.Service.SearchPeople                                             *)
(*                                                                         *)
(* A string is a sequence of pieces: strings.Contains looks for a piece,   *)
(* strings.Split cuts at the piece "?", strings.HasPrefix looks at the     *)
(* first piece.                                                            *)
(***************************************************************************)
Host == "https://www.linkedin.com"
ProfileMarker == "/in/"
MiniProfileMarker == "/mini-profile/"
QueryMark == "?"
\* el.Attribute("href") answered nil or an error, or the attribute is empty
NoHref == <<>>
Hrefs ==
    { <<ProfileMarker, "ann">>,
      <<Host, ProfileMarker, "ann", QueryMark, "trk=search">>,
      <<ProfileMarker, "bob">>,
      <<ProfileMarker, "bob", MiniProfileMarker>>,
      <<"/feed/", QueryMark, "next=", ProfileMarker, "ann">>,
      NoHref }
RECURSIVE AnchorLists(_)
AnchorLists(n) ==
    IF n = 0 THEN {<<>>}
    ELSE LET shorter == AnchorLists(n - 1)
         IN  shorter \cup {Append(l, h) : l \in {u \in shorter : Len(u) = n - 1}, h \in Hrefs}

ErrSearchNavigate == "failed to navigate to search: navigation failed"
SearchNavResults == {Nil, ErrSearchNavigate}
NextAnswers == {"absent", "disabled", "enabled"}

Contains(val, piece) == \E k \in DOMAIN val : val[k] = piece
\* strings.Split(val, "?")[0]
RECURSIVE BeforeQuery(_)
BeforeQuery(val) ==
    IF val = <<>> \/ Head(val) = QueryMark THEN <<>>
    ELSE <<Head(val)>> \o BeforeQuery(Tail(val))
\* strings.HasPrefix(cleanURL, "http")
HasPrefixHttp(url) == url # <<>> /\ url[1] = Host
IsProfileLink(val) == Contains(val, ProfileMarker) /\ ~Contains(val, MiniProfileMarker)
CleanURL(val) ==
    LET cleanURL == BeforeQuery(val)
    IN  IF HasPrefixHttp(cleanURL) THEN cleanURL ELSE <<Host>> \o cleanURL

\* The loop over the elements of one page: results after it.
RECURSIVE Extract(_, _)
Extract(found, elements) ==
    IF elements = <<>> THEN found
    ELSE LET val == Head(elements)
             isNew == ~(\E k \in DOMAIN found : found[k] = CleanURL(val))
         IN  Extract(IF IsProfileLink(val) /\ isNew THEN Append(found, CleanURL(val)) ELSE found,
                     Tail(elements))

\* WaitElementsMoreThan("a[href*='/in/']", 2)
WaitThreshold == 2
LoadSignalAtLeast(links) == links >= WaitThreshold
LoadSignal(links) == links > WaitThreshold

\* for page := 1; page <= maxPages; page++
LoopEnters(p, maxPages) == p <= maxPages
\* if page < maxPages
PaginatesAlways(p, maxPages) == TRUE
Paginates(p, maxPages) == p < maxPages

\* The call, up to the navigation.
SearchPeople ==
    /\ searchPc = "call"
    /\ searchLog' = <<<<"Navigate">>>>
    /\ IF searchIn.nav # Nil
       THEN /\ searchRet' = [urls |-> <<>>, err |-> searchIn.nav]
            /\ searchPc' = "done"
       ELSE /\ searchPc' = "wait"
            /\ UNCHANGED searchRet
    /\ UNCHANGED <<searchIn, page, anchors, results>>
    /\ UNCHANGED notSearch

\* The bounded wait for the profile links; a timeout is logged and nothing more.
SearchWait ==
    /\ searchPc = "wait"
    /\ searchLog' = Append(searchLog,
                           <<"Wait", IF LoadSignal(searchIn.links) THEN "loaded" ELSE "timeout">>)
    /\ page' = 1
    /\ searchPc' = IF LoopEnters(1, searchIn.maxPages) THEN "scrape" ELSE "return"
    /\ UNCHANGED <<searchIn, anchors, results, searchRet>>
    /\ UNCHANGED notSearch

\* The scrolls and the extraction of one page; Page.Elements may fail.
SearchScrape ==
    /\ searchPc = "scrape"
    /\ \E elementsErr \in BOOLEAN, elements \in AnchorLists(MaxAnchors) :
           IF elementsErr
           THEN UNCHANGED <<anchors, results>>
           ELSE /\ anchors' = anchors \o elements
                /\ results' = Extract(results, elements)
    /\ searchLog' = Append(searchLog, <<"Scrape", page>>)
    /\ searchPc' = IF Paginates(page, searchIn.maxPages) THEN "paginate" ELSE "return"
    /\ UNCHANGED <<searchIn, page, searchRet>>
    /\ UNCHANGED notSearch

\* The pagination of one page: the Next control is looked for, and clicked unless it is
\* absent or disabled ("enabled": the attribute disabled is nil, or reading it failed).
SearchPaginate ==
    /\ searchPc = "paginate"
    /\ \E next \in NextAnswers :
           IF next = "enabled"
           THEN /\ \E moveErr \in BOOLEAN :
                       searchLog' = searchLog \o
                           <<<<"Next", next>>,
                             <<"Click", IF moveErr THEN "ScrollIntoView" ELSE "HumanMove">>>>
                /\ page' = page + 1
                /\ searchPc' = IF LoopEnters(page + 1, searchIn.maxPages)
                               THEN "scrape" ELSE "return"
           ELSE /\ searchLog' = Append(searchLog, <<"Next", next>>)
                /\ searchPc' = "return"
                /\ UNCHANGED page
    /\ UNCHANGED <<searchIn, anchors, results, searchRet>>
    /\ UNCHANGED notSearch

SearchReturn ==
    /\ searchPc = "return"
    /\ searchRet' = [urls |-> results, err |-> Nil]
    /\ searchPc' = "done"
    /\ UNCHANGED <<searchIn, page, anchors, results, searchLog>>
    /\ UNCHANGED notSearch

InitSearchState ==
    /\ searchPc = "call"
    /\ page = 0
    /\ anchors = <<>>
    /\ results = <<>>
    /\ searchLog = <<>>
    /\ searchRet = [urls |-> <<>>, err |-> "none"]
InitSearch ==
    /\ searchIn \in [maxPages : (0 - NegPages)..MaxPages, nav : SearchNavResults,
                     links : 0..MaxLinks]
    /\ InitSearchState
InitSearchIdle ==
    /\ searchIn = [maxPages |-> 0, nav |-> Nil, links |-> 0]
    /\ InitSearchState

(***************************************************************************)
(* main: RunFollowUpWorkflow and RunConnectWorkflow                        *)
(*                                                                         *)
(* Each workflow is one flow of control that calls into the messaging or   *)
(* the connect service and into the store.  A call of SendFollowUp or of   *)
(* SendConnectionRequest is the step machine of that method, started by    *)
(* the workflow and read by it once the method has returned.               *)
(***************************************************************************)
NoWorkflowIn == [urls |-> <<>>, err |-> Nil, limit |-> 0,
                 store |-> [Data |-> EmptyData, file |-> NoFile]]

\* The marks an earlier run left in the store file, as NewJSONStore loads them.
LoadedMap(marked) == [u \in marked |-> [wall |-> 0, mono |-> FALSE]]
LoadedData(req, msg, conn) ==
    [Requests |-> LoadedMap(req), Messages |-> LoadedMap(msg), Connections |-> LoadedMap(conn)]
InitLoadedStore(req, msg, conn) ==
    /\ Data = LoadedData(req, msg, conn)
    /\ file = IF req \cup msg \cup conn = {} THEN NoFile
              ELSE [state |-> "ok", doc |-> Marshal(LoadedData(req, msg, conn))]
    /\ clock = 0
    /\ loadErr = FALSE
    /\ lastPersist = "none"
    /\ lastOp = [op |-> "NewJSONStore", url |-> NoOp.url]

InitWorkflowState ==
    /\ wfI = 0
    /\ processed = 0
    /\ candidates = <<>>
    /\ targetURL = NoOp.url
    /\ wfLog = <<>>
InitWorkflowIdle ==
    /\ wfIn = NoWorkflowIn
    /\ wfPc = "off"
    /\ InitWorkflowState

\* What a step of a workflow leaves alone besides the service it calls and the store.
notWorkflowCall == <<retryVars, loginVars, lockVars, mainVars, scrollVars, mouseVars,
                     typeVars, jitterVars, searchVars>>

\* connections, err := messenger.DetectNewConnections(20); if err != nil { return }
FollowUpDetect ==
    /\ wfPc = "detect"
    /\ IF wfIn.err # Nil
       THEN wfPc' = "done" /\ wfI' = wfI
       ELSE wfPc' = "loop" /\ wfI' = 1
    /\ UNCHANGED <<wfIn, processed, candidates, targetURL, wfLog, notWorkflow>>

\* Mutant: the loop stops only after the limit has been exceeded.
MessageLimitReachedLate(n, limit) == n > limit

\* if processed >= cfg.Limits.DailyMessages { break }
MessageLimitReached(n, limit) == n >= limit

\* The head of one iteration of "for _, url := range connections": the limit, then
\* store.IsMessaged(url), then the call of messenger.SendFollowUp(url, msgTemplate).
\* msgRet = "none" stands for a call that has been decided and not yet entered.
FollowUpIterate ==
    /\ wfPc = "loop"
    /\ IF wfI > Len(wfIn.urls)
       THEN wfPc' = "done" /\ wfI' = wfI /\ msgRet' = msgRet
       ELSE IF MessageLimitReached(processed, wfIn.limit)
       THEN wfPc' = "done" /\ wfI' = wfI /\ msgRet' = msgRet
       ELSE IF IsMessaged(Data, wfIn.urls[wfI])
       THEN wfPc' = "loop" /\ wfI' = wfI + 1 /\ msgRet' = msgRet
       ELSE wfPc' = "call" /\ wfI' = wfI /\ msgRet' = "none"
    /\ UNCHANGED <<wfIn, processed, candidates, targetURL, wfLog>>
    /\ UNCHANGED <<msgPc, msgUrl, msgEvents, entryStore, sendClicks>>
    /\ UNCHANGED <<connectVars, storeVars, notWorkflowCall>>

\* messenger.SendFollowUp(url, msgTemplate) is entered with the URL of the iteration.
FollowUpCall ==
    /\ wfPc = "call"
    /\ msgRet = "none"
    /\ SendFollowUp
    /\ msgUrl' = wfIn.urls[wfI]

\* SendFollowUp has returned: an error is logged and the loop continues; otherwise
\* processed++.
FollowUpReturned ==
    /\ wfPc = "call"
    /\ msgPc = "idle"
    /\ msgRet \notin {"none", "running"}
    /\ wfLog' = Append(wfLog, [url |-> msgUrl, err |-> msgRet, processed |-> processed,
                               messaged |-> msgUrl \in DOMAIN entryStore.Data.Messages])
    /\ processed' = IF msgRet = Nil THEN processed + 1 ELSE processed
    /\ wfI' = wfI + 1
    /\ wfPc' = "loop"
    /\ UNCHANGED <<wfIn, candidates, targetURL, notWorkflow>>

\* rand.Shuffle: every order of the slice.
Shuffles(s) == {[k \in 1..Len(s) |-> s[p[k]]] : p \in Permutations(1..Len(s))}

\* Mutant: a profile already connected is still a candidate.
UnprocessedIgnoresConnected(data, url) == ~IsRequestSent(data, url)

\* if !store.IsRequestSent(url) && !store.IsConnected(url)
Unprocessed(data, url) == ~IsRequestSent(data, url) /\ ~IsConnected(data, url)

\* candidates = append(candidates, url) for every unprocessed url of profiles, in order
Candidates(profiles, data) == SelectSeq(profiles, LAMBDA u : Unprocessed(data, u))

\* profiles, err := searcher.SearchPeople(criteria, *pages), os.Exit(1) on an error;
\* shuffle, filter, "No new candidates found." or shuffle again and take candidates[0].
ConnectSelect ==
    /\ wfPc = "search"
    /\ IF wfIn.err # Nil
       THEN wfPc' = "exit" /\ UNCHANGED <<candidates, targetURL>>
       ELSE \E shuffled \in Shuffles(wfIn.urls) :
               IF Len(Candidates(shuffled, Data)) = 0
               THEN /\ candidates' = Candidates(shuffled, Data)
                    /\ wfPc' = "done"
                    /\ targetURL' = targetURL
               ELSE \E again \in Shuffles(Candidates(shuffled, Data)) :
                       /\ candidates' = again
                       /\ targetURL' = again[1]
                       /\ wfPc' = "send"
    /\ UNCHANGED <<wfIn, wfI, processed, wfLog, notWorkflow>>

\* err = connector.SendConnectionRequest(targetURL, noteTemplate)
ConnectCall ==
    /\ wfPc = "send"
    /\ ret = "none"
    /\ SendConnectionRequest

\* if err != nil { log } else { store.SaveRequest(targetURL) }
ConnectMark ==
    /\ wfPc = "send"
    /\ pc = "idle"
    /\ ret \notin {"none", "running"}
    /\ IF ret # Nil
       THEN UNCHANGED storeVars
       ELSE /\ clock < MaxClock
            /\ \E outcome \in PersistOutcomes :
                  Save("SaveRequest", SaveRequestData(Data, targetURL, TimeNow(clock + 1)),
                       targetURL, outcome)
    /\ wfPc' = "done"
    /\ UNCHANGED <<wfIn, wfI, processed, candidates, targetURL, wfLog>>
    /\ UNCHANGED <<connectVars, msgVars, notWorkflowCall>>

\* The sequences of at most n distinct URLs, as SearchPeople returns them.
DistinctSeqs(S, n) == {s \in SeqsUpTo(S, n) : Cardinality({s[k] : k \in DOMAIN s}) = Len(s)}

\* One run of RunFollowUpWorkflow: any list of links on the connections page, any
\* daily message limit of the configuration, any set of profiles messaged before.
InitFollowUpWorkflow ==
    /\ \E prior \in SUBSET URLs : InitLoadedStore({}, prior, {})
    /\ wfIn \in [urls : SeqsUpTo(URLs, MaxConnections), err : {Nil, ErrNavigate},
                 limit : (0 - NegDailyLimit)..MaxDailyLimit,
                 store : {[Data |-> Data, file |-> file]}]
    /\ wfPc = "detect"
    /\ InitWorkflowState
    /\ msgPc = "idle"
    /\ msgUrl = NoOp.url
    /\ msgEvents = <<>>
    /\ msgRet = "none"
    /\ entryStore = [Data |-> Data, file |-> file]
    /\ sendClicks = [u \in URLs |-> 0]

\* One run of RunConnectWorkflow: any search result, any daily connection limit, any
\* set of profiles marked request-sent or connected before.
InitConnectWorkflow ==
    /\ \E req \in SUBSET URLs, conn \in SUBSET URLs : InitLoadedStore(req, {}, conn)
    /\ wfIn \in [urls : DistinctSeqs(URLs, NumURLs), err : {Nil, ErrSearchNavigate},
                 limit : {0}, store : {[Data |-> Data, file |-> file]}]
    /\ wfPc = "search"
    /\ InitWorkflowState
    /\ InitConnect

InitSessionIdle == InitLockIdle /\ InitMainIdle /\ InitScrollIdle /\ InitMouseIdle /\ InitTypeIdle /\ InitJitterIdle /\ InitSearchIdle /\ InitWorkflowIdle

InitRetryIdle ==
    /\ retryIn = [op |-> [k \in 1..(MaxRetriesBound + 1) |-> Nil], maxRetries |-> 0,
                  initialBackoff |-> 0, maxBackoff |-> 0]
    /\ retryOut = NoRetryOut
    /\ retryPc = "idle"

InitConnectIdle ==
    /\ DailyLimit = 0
    /\ sentCount = 0
    /\ pc = "off"
    /\ idx = 0
    /\ connectBtn = Nil
    /\ events = <<>>
    /\ ret = "none"
    /\ startCount = 0
    /\ lastRes = "none"
    /\ modal = NoModal

\* The connect service: any sequence of SendConnectionRequest calls on any page.
Init ==
    /\ InitConnect /\ InitRetryIdle /\ InitLoginIdle /\ InitStoreIdle /\ InitMsgIdle
    /\ InitSessionIdle
Next ==
    \/ SendConnectionRequest
    \/ NavigateTo
    \/ LoadProfile
    \/ ProbeDirect
    \/ OpenMore
    \/ ProbeMenu
    \/ ClickConnect
    \/ AddNote
    \/ ClickSend
    \/ ProbeFollow
    \/ ProbeMessage
    \/ SendChat
Spec == Init /\ [][Next]_vars

\* RetryWithBackoff on every argument tuple of RetryInputs.
InitRetry ==
    /\ InitConnectIdle
    /\ InitLoginIdle /\ InitStoreIdle /\ InitMsgIdle /\ InitSessionIdle
    /\ retryIn \in RetryInputs
    /\ retryOut = NoRetryOut
    /\ retryPc = "ready"
NextRetry == RetryCall
SpecRetry == InitRetry /\ [][NextRetry]_vars

\* One Login call, for every combination of present and missing credentials.  The
\* call is a single flow of control that always takes its next step.
InitLoginSpec ==
    /\ InitLogin
    /\ InitConnectIdle /\ InitRetryIdle /\ InitStoreIdle /\ InitMsgIdle /\ InitSessionIdle
NextLogin ==
    \/ LoginNavigate
    \/ LoginCheckSession
    \/ LoginUsername
    \/ LoginPassword
    \/ LoginSubmit
    \/ LoginPoll
SpecLogin == InitLoginSpec /\ [][NextLogin]_vars /\ WF_vars(NextLogin)

\* The store under any sequence of its methods and of restarts of the process.
InitStoreSpec ==
    /\ InitStore
    /\ InitConnectIdle /\ InitRetryIdle /\ InitLoginIdle /\ InitMsgIdle /\ InitSessionIdle
NextStore ==
    \/ SaveRequest
    \/ SaveMessage
    \/ SaveConnection
    \/ Close
    \/ OpenStore
SpecStore == InitStoreSpec /\ [][NextStore]_vars

\* Any sequence of SendFollowUp calls, and of restarts of the process between calls.
InitFollowUpSpec ==
    /\ InitFollowUp
    /\ InitConnectIdle /\ InitRetryIdle /\ InitLoginIdle /\ InitSessionIdle
NextFollowUp ==
    \/ SendFollowUp
    \/ FollowUpNavigate
    \/ FollowUpMessageButton
    \/ FollowUpInputBox
    \/ FollowUpType
    \/ FollowUpSend
    \/ OpenStore
SpecFollowUp == InitFollowUpSpec /\ [][NextFollowUp]_vars

\* The store called by NumCallers goroutines at once.
InitCoreIdle ==
    /\ InitConnectIdle /\ InitRetryIdle /\ InitLoginIdle /\ InitStoreIdle /\ InitMsgIdle
InitConcurrent == InitCoreIdle /\ InitLock /\ InitMainIdle /\ InitScrollIdle /\ InitMouseIdle /\ InitTypeIdle /\ InitJitterIdle /\ InitSearchIdle /\ InitWorkflowIdle
NextConcurrent ==
    \E t \in Callers :
        \/ StoreCall(t)
        \/ StoreLock(t)
        \/ StoreUpdate(t)
        \/ StorePersist(t)
        \/ StoreRead(t)
        \/ StoreUnlock(t)
SpecConcurrent == InitConcurrent /\ [][NextConcurrent]_vars

\* One run of the program, for every mode and configuration.
InitMainSpec == InitCoreIdle /\ InitLockIdle /\ InitMain /\ InitScrollIdle /\ InitMouseIdle /\ InitTypeIdle /\ InitJitterIdle /\ InitSearchIdle /\ InitWorkflowIdle
NextMain ==
    \/ MainLoadConfig
    \/ MainBrowserNew
    \/ MainLogin
    \/ MainStorage
    \/ MainWorkflow
    \/ MainReturn
SpecMain == InitMainSpec /\ [][NextMain]_vars

\* One HumanScroll call for every request of DeltaYs; the call always takes its next step.
InitScrollSpec == InitCoreIdle /\ InitLockIdle /\ InitMainIdle /\ InitScroll /\ InitMouseIdle /\ InitTypeIdle /\ InitJitterIdle /\ InitSearchIdle /\ InitWorkflowIdle
NextScroll ==
    \/ HumanScroll
    \/ ScrollChunk
    \/ ScrollReturn
SpecScroll == InitScrollSpec /\ [][NextScroll]_vars /\ WF_vars(NextScroll)

\* Any sequence of HumanMove calls of one browser.
InitMouseSpec == InitCoreIdle /\ InitLockIdle /\ InitMainIdle /\ InitScrollIdle /\ InitMouse /\ InitTypeIdle /\ InitJitterIdle /\ InitSearchIdle /\ InitWorkflowIdle
NextMouse == HumanMove
SpecMouse == InitMouseSpec /\ [][NextMouse]_vars

\* One HumanType call with any text of at most MaxText bytes.
InitTypeSpec == InitCoreIdle /\ InitLockIdle /\ InitMainIdle /\ InitScrollIdle /\ InitMouseIdle /\ InitType /\ InitJitterIdle /\ InitSearchIdle /\ InitWorkflowIdle
NextType == HumanType \/ TypeChar \/ TypeReturn
SpecType == InitTypeSpec /\ [][NextType]_vars

\* One SleepWithJitter call with any base and deviation.
InitJitterSpec == InitCoreIdle /\ InitLockIdle /\ InitMainIdle /\ InitScrollIdle /\ InitMouseIdle /\ InitTypeIdle /\ InitJitter /\ InitSearchIdle /\ InitWorkflowIdle
NextJitter == SleepWithJitter
SpecJitter == InitJitterSpec /\ [][NextJitter]_vars

\* One SearchPeople call on any pages of results.
InitSearchSpec == InitCoreIdle /\ InitLockIdle /\ InitMainIdle /\ InitScrollIdle /\ InitMouseIdle /\ InitTypeIdle /\ InitJitterIdle /\ InitSearch /\ InitWorkflowIdle
NextSearch == SearchPeople \/ SearchWait \/ SearchScrape \/ SearchPaginate \/ SearchReturn
SpecSearch == InitSearchSpec /\ [][NextSearch]_vars

\* One run of RunFollowUpWorkflow.
InitFollowUpWorkflowSpec == InitFollowUpWorkflow /\ InitConnectIdle /\ InitRetryIdle /\ InitLoginIdle /\ InitLockIdle /\ InitMainIdle /\ InitScrollIdle /\ InitMouseIdle /\ InitTypeIdle /\ InitJitterIdle /\ InitSearchIdle
NextFollowUpWorkflow ==
    \/ FollowUpDetect
    \/ FollowUpIterate
    \/ FollowUpCall
    \/ FollowUpNavigate
    \/ FollowUpMessageButton
    \/ FollowUpInputBox
    \/ FollowUpType
    \/ FollowUpSend
    \/ FollowUpReturned
SpecFollowUpWorkflow == InitFollowUpWorkflowSpec /\ [][NextFollowUpWorkflow]_vars

\* One run of RunConnectWorkflow.
InitConnectWorkflowSpec == InitConnectWorkflow /\ InitRetryIdle /\ InitLoginIdle /\ InitMsgIdle /\ InitLockIdle /\ InitMainIdle /\ InitScrollIdle /\ InitMouseIdle /\ InitTypeIdle /\ InitJitterIdle /\ InitSearchIdle
NextConnectWorkflow ==
    \/ ConnectSelect
    \/ ConnectCall
    \/ NavigateTo
    \/ LoadProfile
    \/ ProbeDirect
    \/ OpenMore
    \/ ProbeMenu
    \/ ClickConnect
    \/ AddNote
    \/ ClickSend
    \/ ProbeFollow
    \/ ProbeMessage
    \/ SendChat
    \/ ConnectMark
SpecConnectWorkflow == InitConnectWorkflowSpec /\ [][NextConnectWorkflow]_vars

(***************************************************************************)
(* Helpers of the properties.                                              *)
(***************************************************************************)
Range(f) == {f[k] : k \in DOMAIN f}
Max(a, b) == IF a >= b THEN a ELSE b
Min(a, b) == IF a <= b THEN a ELSE b
RECURSIVE Pow2(_)
Pow2(n) == IF n <= 0 THEN 1 ELSE 2 * Pow2(n - 1)

\* Position of the first occurrence of e in ev, 0 when absent.
First(ev, e) ==
    IF e \in Range(ev) THEN CHOOSE k \in DOMAIN ev : ev[k] = e /\ \A j \in 1..(k - 1) : ev[j] # e
    ELSE 0
Occurs(ev, e) == e \in Range(ev)
Before(ev, a, b) == Occurs(ev, a) /\ Occurs(ev, b) /\ First(ev, a) < First(ev, b)
Count(ev, e) == Cardinality({k \in DOMAIN ev : ev[k] = e})

\* The controls whose click is a send-equivalent action.
SendControls == {SelSendNow, SelDialogSend, SelSubmit} \cup Range(followSelectors)
SendClicks(ev) == Cardinality({k \in DOMAIN ev : ev[k][1] = "click" /\ ev[k][2] \in SendControls})
ConnectErrors == {ErrDailyLimit, ErrNavigate, ErrWeeklyLimit, ErrSendNotFound, ErrNoOptions}
Returned == pc = "idle" /\ ret # "none"

(***************************************************************************)
(* Properties of connect.Service (specification Spec).                     *)
(***************************************************************************)

\* C1: a call entered with sentCount >= DailyLimit returns the daily-limit error at
\* once: it is never running, it made no browser interaction at all (no navigation,
\* query, click, ...), and sentCount is what it was at entry.
C1_DailyLimitFailsFast ==
    (ret # "none" /\ startCount >= DailyLimit) =>
        /\ pc = "idle"
        /\ ret = ErrDailyLimit
        /\ events = <<>>
        /\ sentCount = startCount

\* Witness of C1: the limit was reached by sending, and the next call was refused.
C1_Witness ==
    /\ DailyLimit > 0
    /\ startCount = DailyLimit
    /\ ret = ErrDailyLimit

\* C2 as stated: sentCount <= DailyLimit in every reachable state, for any DailyLimit.
C2_SentCountWithinLimit == sentCount <= DailyLimit

\* C2 amended: for DailyLimit >= 0, sentCount <= DailyLimit in every reachable state;
\* for a negative DailyLimit sentCount stays at 0.
C2_SentCountWithinNonNegativeLimit == sentCount >= 0 /\ sentCount <= Max(DailyLimit, 0)

\* Witness of C2: the last request the limit allows has just been sent.
C2_Witness ==
    /\ DailyLimit > 0
    /\ sentCount = DailyLimit
    /\ sentCount = startCount + 1
    /\ Returned /\ ret = Nil

\* C3: one call adds exactly 1 to sentCount when it clicks a send-equivalent control
\* (invitation Send, fallback Follow, fallback Message send) and adds nothing on every
\* other path; the click of the send control is the last thing the call does.
C3_SentCountDelta ==
    /\ sentCount = startCount + SendClicks(events)
    /\ SendClicks(events) <= 1
    /\ SendClicks(events) = 1 => (Returned /\ ret = Nil /\ events[Len(events)][1] = "click")
    /\ ret \in ConnectErrors => sentCount = startCount
    /\ Occurs(events, PressEscape) => sentCount = startCount
    /\ (Returned /\ ret = Nil /\ events[Len(events)] = Query(SelPending))
           => sentCount = startCount

\* Witness of C3: the fallback Message path sent a message and counted it.
C3_Witness ==
    /\ Returned /\ ret = Nil
    /\ events[Len(events)] = Click(SelSubmit)
    /\ sentCount = startCount + 1

\* C4: when the page text read after the Connect click contains the weekly-limit
\* message, the call returns the weekly-limit error, which differs from every other
\* error; it did not look for or click an "Add a note" or Send control, clicked
\* Connect once and navigated no further (no retry), and did not count anything.
C4_WeeklyLimitStops ==
    /\ (modal.seen /\ modal.weekly) =>
          /\ pc = "idle"
          /\ ret = ErrWeeklyLimit
          /\ sentCount = startCount
          /\ events[Len(events)] = Query(SelBody)
          /\ Count(events, Click(connectBtn)) = 1
          /\ \A k \in DOMAIN events :
                events[k][2] \notin {SelEmail, SelAddNote, SelSendNow, SelDialogSend}
                                     \cup Range(followSelectors) \cup Range(msgSelectors)
    /\ ret = ErrWeeklyLimit => (modal.seen /\ modal.weekly)
    /\ ErrWeeklyLimit \notin ConnectErrors \ {ErrWeeklyLimit}

\* Witness of C4: the weekly-limit text was on the page together with a prompt.
C4_Witness ==
    /\ ret = ErrWeeklyLimit
    /\ modal.weekly /\ modal.howKnow

\* C5 as stated: an email-required or "How do you know" prompt after the Connect click
\* makes the call dismiss the dialog and return nil without clicking a Send control.
C5_PromptSkips ==
    (modal.seen /\ (modal.email \/ modal.howKnow)) =>
        /\ pc = "idle"
        /\ ret = Nil
        /\ events[Len(events)] = PressEscape
        /\ SendClicks(events) = 0

\* C5 amended: the same, provided the page text does not contain the weekly-limit
\* message (which is checked first and returns the weekly-limit error).
C5_PromptSkipsUnlessWeekly ==
    (modal.seen /\ ~modal.weekly /\ (modal.email \/ modal.howKnow)) =>
        /\ pc = "idle"
        /\ ret = Nil
        /\ events[Len(events)] = PressEscape
        /\ Count(events, PressEscape) = 1
        /\ SendClicks(events) = 0
        /\ sentCount = startCount
        /\ \A k \in DOMAIN events : events[k][2] \notin {SelAddNote, SelSendNow, SelDialogSend}

\* Witness of C5: only the "How do you know" prompt was present and the call skipped.
C5_Witness ==
    /\ modal.seen /\ modal.howKnow /\ ~modal.email /\ ~modal.weekly
    /\ Returned /\ ret = Nil

\* Every selector of the sequence sels was queried, in the order of sels.
QueriedInOrder(ev, sels) ==
    /\ \A i \in DOMAIN sels : Count(ev, Query(sels[i])) = 1
    /\ \A i \in DOMAIN sels : i > 1 => Before(ev, Query(sels[i - 1]), Query(sels[i]))
\* The selectors of sels that were queried are an initial part of sels, in order.
QueriedPrefix(ev, sels) ==
    /\ \A i \in DOMAIN sels : Count(ev, Query(sels[i])) <= 1
    /\ \A i \in DOMAIN sels :
          (i > 1 /\ Occurs(ev, Query(sels[i]))) => Before(ev, Query(sels[i - 1]), Query(sels[i]))
MoreOpened(ev) == Occurs(ev, Click(SelMoreX)) \/ Occurs(ev, Click(SelMoreCss))
ConnectSelectors == Range(directConnectSelectors) \cup Range(menuOptions)
FallbackEntered(ev) ==
    \E s \in Range(followSelectors) \cup Range(msgSelectors) : Occurs(ev, Query(s))

\* The order of the probes as the events of the call show it.
C6_OrderInv ==
    /\ QueriedPrefix(events, directConnectSelectors)
    /\ QueriedPrefix(events, menuOptions)
    /\ Occurs(events, Query(SelMoreX)) =>
          /\ QueriedInOrder(events, directConnectSelectors)
          /\ Before(events, Query(directConnectSelectors[Len(directConnectSelectors)]),
                    Query(SelMoreX))
          /\ connectBtn \notin Range(directConnectSelectors)
    /\ Occurs(events, Query(menuOptions[1])) =>
          /\ MoreOpened(events)
          /\ \A c \in {Click(SelMoreX), Click(SelMoreCss)} :
                Occurs(events, c) => Before(events, c, Query(menuOptions[1]))
    /\ FallbackEntered(events) =>
          /\ connectBtn = Nil
          /\ QueriedInOrder(events, directConnectSelectors)
          /\ Occurs(events, Query(SelMoreX))
          /\ MoreOpened(events) => QueriedInOrder(events, menuOptions)
          /\ \A s \in ConnectSelectors : ~Occurs(events, Click(s))
    /\ connectBtn # Nil =>
          /\ connectBtn \in ConnectSelectors
          /\ Occurs(events, Query(connectBtn))
          /\ \A s \in ConnectSelectors \cup {SelMoreX, SelMoreCss} :
                Occurs(events, Query(s)) => First(events, Query(s)) <= First(events, Query(connectBtn))

\* One probe of the Connect stages: visible stops the probing and keeps the element,
\* hidden and not found both keep nothing and move to the next probe or stage.
C6_ProbeStep ==
    (pc \in {"direct", "menu"}) =>
        LET sels == IF pc = "direct" THEN directConnectSelectors ELSE menuOptions
        IN  /\ events' = Append(events, Query(sels[idx]))
            /\ IF lastRes' = "visible"
               THEN connectBtn' = sels[idx] /\ pc' = "click"
               ELSE /\ lastRes' \in {"hidden", "notfound"}
                    /\ connectBtn' = Nil
                    /\ IF idx < Len(sels)
                       THEN pc' = pc /\ idx' = idx + 1
                       ELSE pc' = (IF pc = "direct" THEN "more" ELSE "follow")

\* C6: SendConnectionRequest probes in a fixed order and stops at the first probe that
\* is found and visible: direct Connect selectors first, the More menu and its options
\* only if no direct button was visible, the fallback chain only if neither stage kept
\* an element; a found-but-hidden probe is treated like a not-found one.
C6_ProbeOrder == [](C6_OrderInv) /\ [][C6_ProbeStep]_vars

\* Witness of C6: a hidden menu option was passed over and a later option was kept.
C6_Witness ==
    /\ connectBtn = menuOptions[3]
    /\ pc = "click"
    /\ MoreOpened(events)

\* The fallback chain as the events of the call show it.
C7_ChainInv ==
    /\ QueriedPrefix(events, followSelectors)
    /\ QueriedPrefix(events, msgSelectors)
    /\ Occurs(events, Query(msgSelectors[1])) =>
          /\ QueriedInOrder(events, followSelectors)
          /\ Before(events, Query(followSelectors[Len(followSelectors)]),
                    Query(msgSelectors[1]))
          /\ \A s \in Range(followSelectors) : ~Occurs(events, Click(s))
    /\ FallbackEntered(events) => ret \in {"running", Nil, ErrNoOptions}
    /\ pc \in {"follow", "message", "chat"} => ret = "running"
    /\ ret = ErrNoOptions =>
          /\ connectBtn = Nil
          /\ QueriedInOrder(events, directConnectSelectors)
          /\ MoreOpened(events) => QueriedInOrder(events, menuOptions)
          /\ QueriedInOrder(events, followSelectors)
          /\ \/ QueriedInOrder(events, msgSelectors)
             \/ \E s \in Range(msgSelectors) : Occurs(events, Click(s))
          /\ SendClicks(events) = 0
          /\ sentCount = startCount

\* A probe of the fallback chain that finds nothing visible raises no error, except
\* the last Message probe, after which nothing is left to try.
C7_ProbeStep ==
    (pc \in {"follow", "message"} /\ lastRes' # "visible") =>
        IF pc = "message" /\ idx = Len(msgSelectors)
        THEN ret' = ErrNoOptions
        ELSE ret' = "running" /\ pc' \in {"follow", "message"}

\* C7: in tryFallbacks Follow is tried before Message, Message only if no Follow
\* control was visible, a failed probe is never an error, and the error is returned
\* only when the Connect, Follow and Message strategies are all exhausted without a
\* send-equivalent click.
C7_FallbackChain == [](C7_ChainInv) /\ [][C7_ProbeStep]_vars

\* Witness of C7: every strategy was exhausted, the last Message probe being hidden.
C7_Witness ==
    /\ Returned /\ ret = ErrNoOptions
    /\ lastRes = "hidden"
    /\ MoreOpened(events)

(***************************************************************************)
(* Properties of utils.RetryWithBackoff (specification SpecRetry).         *)
(***************************************************************************)
RetryDone == retryPc = "done"
Invocations == OpResults(retryOut.log)

\* C8: RetryWithBackoff returns success exactly when one of the first maxRetries+1
\* results of the operation is a success.
C8_SuccessIffAttemptSucceeds ==
    RetryDone =>
        (retryOut.ok <=> \E k \in 1..(retryIn.maxRetries + 1) : retryIn.op[k] = Nil)

\* Witness of C8: the operation failed maxRetries times and succeeded on the last attempt.
C8_Witness ==
    /\ RetryDone
    /\ retryIn.maxRetries = MaxRetriesBound
    /\ \A k \in 1..retryIn.maxRetries : retryIn.op[k] # Nil
    /\ retryIn.op[retryIn.maxRetries + 1] = Nil
    /\ retryOut.ok
    /\ Len(Invocations) = retryIn.maxRetries + 1

\* C9 as stated: for every maxRetries the operation is invoked at least once and at
\* most maxRetries+1 times, and nothing (no invocation, no sleep) follows a success.
C9_InvocationCount ==
    RetryDone =>
        /\ Len(Invocations) >= 1
        /\ Len(Invocations) <= retryIn.maxRetries + 1
        /\ \A k \in DOMAIN retryOut.log :
              retryOut.log[k] = <<"op", Nil>> => k = Len(retryOut.log)

\* C10 as stated: the k-th sleep is min(initialDelay * 2^(k-1), maxDelay), no sleep
\* exceeds maxDelay, NavigateTo's arguments give 2s, 4s, 8s, and the log never ends
\* with a sleep.
C10_SleepSchedule ==
    RetryDone =>
        LET sl == Sleeps(retryOut.log)
        IN  /\ \A k \in DOMAIN sl :
                  /\ sl[k] = Min(retryIn.initialBackoff * Pow2(k - 1), retryIn.maxBackoff)
                  /\ sl[k] <= retryIn.maxBackoff
            /\ Len(sl) <= Max(retryIn.maxRetries, 0)
            /\ (retryOut.log # <<>>) => retryOut.log[Len(retryOut.log)][1] = "op"
            /\ ( /\ retryIn.maxRetries = NavMaxRetries
                 /\ retryIn.initialBackoff = NavInitialBackoff
                 /\ retryIn.maxBackoff = NavMaxBackoff
                 /\ ~retryOut.ok ) => sl = <<2, 4, 8>>

\* C11: when every one of the maxRetries+1 invocations fails, the returned error
\* reports maxRetries as the retry count and wraps the error of the last invocation.
C11_ExhaustedWrapsLastError ==
    (RetryDone /\ retryIn.maxRetries >= 0
               /\ \A k \in 1..(retryIn.maxRetries + 1) : retryIn.op[k] # Nil) =>
        /\ ~retryOut.ok
        /\ retryOut.retries = retryIn.maxRetries
        /\ Len(Invocations) = retryIn.maxRetries + 1
        /\ retryOut.wrapped = Invocations[Len(Invocations)]
        /\ retryOut.wrapped = retryIn.op[retryIn.maxRetries + 1]

\* Witness of C11: all attempts failed, the first and the last with different errors.
C11_Witness ==
    /\ RetryDone
    /\ retryIn.maxRetries = 2
    /\ retryIn.op[1] = "e1" /\ retryIn.op[2] = "e1" /\ retryIn.op[3] = "e2"
    /\ ~retryOut.ok
    /\ retryOut.wrapped = "e2"

(***************************************************************************)
(* Properties of auth.Authenticator.Login (specification SpecLogin).       *)
(***************************************************************************)
LoginDone == loginPc = "done"
CredentialSelectors == {SelUsername, SelSessionKey, SelPassword, SelSessionPassword}
EventsOf(ev, kind) == {k \in DOMAIN ev : ev[k][1] = kind}
Submitted == Occurs(loginEvents, Click(SelSignIn))

\* C12: when the logged-in indicator is present at the session check, Login returns
\* nil right after that check: nothing was typed into a field, the submit control was
\* neither looked for nor clicked, and the polling loop was never entered.
C12_SessionShortCircuit ==
    hasNav = "present" =>
        /\ LoginDone
        /\ loginRet = LoginOk
        /\ loginEvents[Len(loginEvents)] = Query(SelLoggedIn)
        /\ Count(loginEvents, Query(SelLoggedIn)) = 1
        /\ EventsOf(loginEvents, "input") = {}
        /\ EventsOf(loginEvents, "click") = {}
        /\ \A k \in DOMAIN loginEvents :
              loginEvents[k][2] \notin CredentialSelectors \cup {SelSignIn}
        /\ polls = 0 /\ ~poll.seen

\* Witness of C12: the indicator was present for a configuration without credentials.
C12_Witness ==
    /\ hasNav = "present"
    /\ LoginDone /\ loginRet = LoginOk
    /\ ~creds.user /\ ~creds.pass

\* C13 as stated: with an empty username or password Login returns the
\* missing-credentials error before any browser interaction.
C13_MissingCredentialsFailFast ==
    (LoginDone /\ (~creds.user \/ ~creds.pass)) =>
        /\ loginRet = ErrCredentials
        /\ loginEvents = <<>>

\* C13 amended: with an empty username or password Login first navigates to the feed
\* and checks the session; it returns the navigation error if that navigation fails,
\* nil if the logged-in indicator is present, and otherwise the missing-credentials
\* error, before any credential field is filled and before the submit control is
\* looked for or clicked.  The missing-credentials error is returned in no other case.
C13_MissingCredentialsAfterSessionCheck ==
    /\ (~creds.user \/ ~creds.pass) =>
          /\ loginPc \in {"start", "session", "done"}
          /\ EventsOf(loginEvents, "input") = {}
          /\ EventsOf(loginEvents, "click") = {}
          /\ \A k \in DOMAIN loginEvents :
                loginEvents[k][2] \notin {SelSessionKey, SelPassword, SelSessionPassword, SelSignIn}
          /\ polls = 0
          /\ LoginDone =>
                \/ loginRet = ErrLoginNavigate /\ hasNav = "unseen"
                \/ loginRet = LoginOk /\ hasNav = "present"
                \/ loginRet = ErrCredentials /\ hasNav = "absent"
    /\ loginRet = ErrCredentials =>
          /\ ~creds.user \/ ~creds.pass
          /\ loginEvents[1] = NavigateFeed
          /\ Before(loginEvents, NavigateFeed, Query(SelLoggedIn))
          /\ Before(loginEvents, Query(SelLoggedIn), Query(SelUsername))

\* Witness of C13: only the password is missing and the session check found nothing.
C13_Witness ==
    /\ creds.user /\ ~creds.pass
    /\ LoginDone /\ loginRet = ErrCredentials
    /\ Occurs(loginEvents, NavigateLogin)

\* The outcomes of a submitted login and what the last iteration of the loop saw.
C14_Outcomes ==
    /\ polls * PollInterval <= PollWindow
    /\ loginPc = "poll" => (Submitted /\ polls * PollInterval <= elapsed)
    /\ (Submitted /\ LoginDone) =>
          \/ loginRet = LoginOk /\ poll.feed
          \/ /\ loginRet = ErrLoginFailed(poll.text)
             /\ ~poll.feed /\ poll.error
          \/ /\ loginRet = ErrChallenge
             /\ ~poll.feed /\ ~poll.error /\ poll.challenge
          \/ /\ loginRet = ErrTimeout
             /\ elapsed >= PollWindow
             /\ ~poll.feed /\ ~poll.error /\ ~poll.challenge
    /\ Cardinality({LoginOk, ErrChallenge, ErrTimeout}
                   \cup {ErrLoginFailed(t) : t \in ErrorTexts}) = 3 + Cardinality(ErrorTexts)

\* C14: once the form is submitted Login terminates, in exactly one of success,
\* failure with the extracted message text, challenge detected, or timeout; the loop
\* runs at most PollWindow / PollInterval times and ends with the timeout error when
\* no indicator ever appears.
C14_SubmittedLoginTerminates == [](C14_Outcomes) /\ (Submitted ~> LoginDone)

\* Witness of C14: no indicator appeared in any of the 60 iterations and Login timed out.
C14_Witness ==
    /\ LoginDone /\ loginRet = ErrTimeout
    /\ polls * PollInterval = PollWindow

\* C15: an iteration of the loop that sees the challenge title (and neither the feed
\* nor an error element) ends Login at once with the 2FA error, which differs from
\* the login-failed and the timeout error; nothing is typed, clicked or polled after it.
C15_ChallengeStops ==
    /\ (poll.seen /\ ~poll.feed /\ ~poll.error /\ poll.challenge) =>
          /\ LoginDone
          /\ loginRet = ErrChallenge
          /\ loginEvents[Len(loginEvents)] = Query(SelTitle)
          /\ Count(loginEvents, Click(SelSignIn)) = 1
          /\ Cardinality(EventsOf(loginEvents, "input")) = 2
    /\ loginRet = ErrChallenge => (poll.seen /\ poll.challenge)
    /\ ErrChallenge \notin {ErrTimeout} \cup {ErrLoginFailed(t) : t \in ErrorTexts}

\* Witness of C15: the challenge appeared after some iterations that saw nothing.
C15_Witness ==
    /\ loginRet = ErrChallenge
    /\ polls = 3

(***************************************************************************)
(* Properties of messaging.Service.SendFollowUp (specification             *)
(* SpecFollowUp).                                                          *)
(***************************************************************************)
\* The store's Messages map holds the URL.
Messaged(data, url) == url \in DOMAIN data.Messages

\* The clicks of a message send control in a log of interactions.
SendClicked(ev) == Occurs(ev, Click(SelSubmit)) \/ Occurs(ev, Click(SelSendText))

FollowUpErrors == {ErrNavigate, ErrMessageBtn, ErrInputBox, ErrFocus, ErrSendMsg}

\* C16: a SendFollowUp call for a URL the store holds as messaged returns nil at once:
\* no navigation, no typing, no click, and the store (memory and file) is as it was.
C16_AlreadyMessagedNoOp ==
    (msgUrl \in URLs /\ Messaged(entryStore.Data, msgUrl)) =>
        /\ msgPc = "idle"
        /\ msgRet = Nil
        /\ msgEvents = <<>>
        /\ Data = entryStore.Data
        /\ file = entryStore.file

\* Witness of C16: the profile was messaged earlier in the process and the next call
\* for it has returned.
C16_Witness ==
    /\ msgUrl \in URLs /\ Messaged(entryStore.Data, msgUrl)
    /\ sendClicks[msgUrl] = 1
    /\ msgPc = "idle" /\ msgRet = Nil

\* C17: whenever a SendFollowUp call has changed the store (memory or file), the click
\* of the send control is already in its log; a call that returned an error left the
\* store as it was at entry.
C17_MarkOnlyAfterClick ==
    /\ msgRet \in FollowUpErrors =>
          /\ Data = entryStore.Data
          /\ file = entryStore.file
    /\ (/\ msgUrl \in URLs
        /\ \/ Data # entryStore.Data
           \/ file # entryStore.file) => SendClicked(msgEvents)
    /\ msgPc \notin {"idle", "off"} => (Data = entryStore.Data /\ file = entryStore.file)

\* Witness of C17: the message was typed and sent with the fallback button, and the
\* profile is now marked although it was not at entry.
C17_Witness ==
    /\ msgRet = Nil
    /\ Before(msgEvents, Type(SelMsgForm), Click(SelSendText))
    /\ Messaged(Data, msgUrl) /\ ~Messaged(entryStore.Data, msgUrl)

\* C18: within one process the message send control is clicked at most once per
\* profile URL, whatever the calls and whatever persist() returns.
C18_AtMostOneSendPerURL == \A u \in URLs : sendClicks[u] <= 1

\* Witness of C18: the message was sent, writing the file failed, and the next call
\* for the same profile was skipped.
C18_Witness ==
    /\ lastPersist = "failed" /\ lastOp = [op |-> "SaveMessage", url |-> msgUrl]
    /\ sendClicks[msgUrl] = 1
    /\ msgPc = "idle" /\ msgRet = Nil /\ msgEvents = <<>>

(***************************************************************************)
(* Properties of storage.MemoryStore (specification SpecStore).            *)
(***************************************************************************)
\* The (kind, url) pairs a store reports as marked.
Marked(data) == {p \in Kinds \X URLs : IsMarked(data, p[1], p[2])}

KindOf(op) ==
    IF op = "SaveRequest" THEN "requests"
    ELSE IF op = "SaveMessage" THEN "messages"
    ELSE "connections"

\* A step that marks: the clock was read.
C19_MarkStep ==
    clock' = clock + 1 =>
        LET kind == KindOf(lastOp'.op)
            url == lastOp'.url
        IN  /\ lastOp'.op \in {"SaveRequest", "SaveMessage", "SaveConnection"}
            /\ IsMarked(Data', kind, url)
            /\ Marked(Data') = Marked(Data) \cup {<<kind, url>>}

\* C19: every mark of (url, kind), the first or a later one, leaves the pair marked and
\* adds nothing else: a second mark does not change the set of marked pairs.
C19_MarkIdempotent == [][C19_MarkStep]_vars

\* Witness of C19: one URL was marked as connected twice, and nothing else is marked.
C19_Witness ==
    \E u \in URLs :
        /\ lastOp = [op |-> "SaveConnection", url |-> u]
        /\ IsConnected(Data, u) /\ Data.Connections[u].wall = 2
        /\ Marked(Data) = {<<"connections", u>>}

\* C20: after a mark that was persisted, a store opened from the file reports the same
\* marks as the store in memory, for every URL and kind.
C20_ReloadAgrees ==
    lastPersist = "ok" =>
        LET fresh == NewJSONStore(file)
        IN  /\ ~fresh.err
            /\ \A kind \in Kinds, u \in URLs :
                  IsMarked(fresh.Data, kind, u) = IsMarked(Data, kind, u)

\* Witness of C20: after persisted marks one URL has a request, the other a message, none
\* a connection; the reloaded maps differ from the ones in memory only in the clock
\* readings.
C20_Witness ==
    /\ lastPersist = "ok" /\ lastOp.op = "SaveMessage"
    /\ \E u1, u2 \in URLs :
          /\ u1 # u2
          /\ Marked(Data) = {<<"requests", u1>>, <<"messages", u2>>}
    /\ NewJSONStore(file).Data # Data
    /\ Marked(NewJSONStore(file).Data) = Marked(Data)

(***************************************************************************)
(* Properties of the store's locking (specification SpecConcurrent).       *)
(***************************************************************************)
\* The goroutines inside a write (from the map update to the release of the lock) and
\* inside a read.
Writing == {t \in Callers : callers[t].op \in WriteOps /\ callers[t].pc \in {"update", "persist", "unlock"}}
Reading == {t \in Callers : callers[t].op \in ReadOps /\ callers[t].pc \in {"read", "unlock"}}

\* C21: at most one goroutine is inside a write, and then none is inside a read (reads
\* may be inside together); a write holds the write lock from its map update through
\* its file rewrite until it returns.
C21_WritesExclusive ==
    /\ Cardinality(Writing) <= 1
    /\ Writing # {} => Reading = {}
    /\ \A t \in Writing : mu.writer = t /\ mu.readers = {}
    /\ \A t \in Reading : t \in mu.readers /\ mu.writer = 0

\* Witness of C21: two reads overlap.
C21_Witness ==
    /\ Cardinality(Reading) >= 2
    /\ Data # EmptyData

(***************************************************************************)
(* Properties of main (specification SpecMain).                            *)
(***************************************************************************)
\* C22 as stated: when the process has ended after launching the browser, the browser
\* has been closed, whatever the path (authentication failure, storage failure, search
\* failure, viewport failure, or the normal end).
C22_BrowserClosedOnEveryExit ==
    (mainPc = "exited" /\ browserProc # "none") => browserProc = "closed"

(***************************************************************************)
(* Properties of HumanScroll (specification SpecScroll).                   *)
(***************************************************************************)
\* The sum of the chunks of a log, and twice the net of its scroll-backs and re-forwards.
RECURSIVE SumChunks(_)
SumChunks(log) == IF log = <<>> THEN 0 ELSE Head(log).chunk + SumChunks(Tail(log))
RECURSIVE TwiceCorrections(_)
TwiceCorrections(log) ==
    IF log = <<>> THEN 0
    ELSE (IF Head(log).kind \in {"back", "forward"} THEN Head(log).twice ELSE 0)
         + TwiceCorrections(Tail(log))
EntryKinds(log) == {log[k].kind : k \in DOMAIN log}
ChunkEntries(log) == {k \in DOMAIN log : log[k].kind = "steps"}

\* C23: a request with |deltaY| < 100 issues exactly one scroll event, of deltaY, and
\* nothing else: the loop is never entered, so no chunk, scroll-back or pause occurs.
C23_SmallScrollIsOneEvent ==
    Abs(deltaY) < 100 =>
        /\ scrollPc \in {"call", "done"}
        /\ scrollPc = "done" => scrollLog = <<ScrollEvent(deltaY)>>
        /\ scrollPc = "call" => scrollLog = <<>>

\* Witness of C23: an upward request of 99 pixels has returned.
C23_Witness ==
    /\ deltaY = 0 - 99
    /\ scrollPc = "done"
    /\ Len(scrollLog) = 1 /\ scrollLog[1].twice = 2 * deltaY

\* Twice the distance of the Mouse.Scroll calls made so far: the sub-steps of every
\* chunk as they were scaled, every scroll-back and every re-forward.
RECURSIVE TwiceEmitted(_)
TwiceEmitted(log) == IF log = <<>> THEN 0 ELSE Head(log).twice + TwiceEmitted(Tail(log))

\* C24 as stated: for |deltaY| >= 100 the scroll events emitted add up to deltaY exactly
\* at the return, a scroll-back and its re-forward netting to zero; what each chunk emits
\* has the sign of deltaY; and the total emitted never overshoots deltaY.
C24_EmittedSumsToDelta ==
    (Abs(deltaY) >= 100 /\ scrollPc \in {"loop", "done"}) =>
        /\ \A k \in ChunkEntries(scrollLog) :
              /\ Sign(scrollLog[k].twice) = Sign(deltaY)
              /\ scrollLog[k].twice # 0
        /\ TwiceCorrections(scrollLog) = 0
        /\ Abs(TwiceEmitted(scrollLog)) <= 2 * Abs(deltaY)
        /\ scrollPc = "done" => TwiceEmitted(scrollLog) = 2 * deltaY

\* What holds of C24 for the chunk variable of the loop, which no Mouse.Scroll call
\* carries: the chunks so far and what remains add up to deltaY at every moment, each
\* chunk has the sign of deltaY and is at most what remained before it, every
\* scroll-back is undone by its re-forward, and the events of a chunk add up to between
\* 0.8 and 1.2 times the chunk.
C24_ChunksSumToDelta ==
    (Abs(deltaY) >= 100 /\ scrollPc \in {"loop", "done"}) =>
        /\ SumChunks(scrollLog) + remaining = deltaY
        /\ currentScroll = SumChunks(scrollLog)
        /\ Abs(SumChunks(scrollLog)) <= Abs(deltaY)
        /\ \A k \in ChunkEntries(scrollLog) :
              /\ Sign(scrollLog[k].chunk) = Sign(deltaY)
              /\ scrollLog[k].chunk # 0
              /\ 10 * (Abs(scrollLog[k].twice) + 1) > 16 * Abs(scrollLog[k].chunk)
              /\ 10 * Abs(scrollLog[k].twice) < 24 * Abs(scrollLog[k].chunk)
        /\ TwiceCorrections(scrollLog) = 0
        /\ scrollPc = "done" => SumChunks(scrollLog) = deltaY

\* What an iteration of the loop does to remaining.
C25_LoopStep ==
    (scrollPc = "loop" /\ scrollPc' = "loop") =>
        /\ Abs(remaining') < Abs(remaining)
        /\ Abs(remaining) - Abs(remaining') >= Min(100, Abs(remaining))
        /\ remaining' = 0 \/ Sign(remaining') = Sign(remaining)

C25_LoopExit ==
    /\ (scrollPc = "done" /\ Abs(deltaY) >= 100) => remaining = 0
    /\ (scrollPc = "loop" /\ remaining # 0) => Sign(remaining) = Sign(deltaY)

\* C25: every HumanScroll call returns; each iteration of its loop reduces |remaining| by
\* the chunk, which is at least min(100, |remaining|); remaining never changes sign; and
\* the loop is left exactly when remaining is 0.
C25_ScrollTerminates ==
    /\ [](C25_LoopExit)
    /\ [][C25_LoopStep]_vars
    /\ (scrollPc = "call" ~> scrollPc = "done")

\* Witness of C25: the largest downward request has returned after four chunks.
C25_Witness ==
    /\ scrollPc = "done" /\ deltaY > 0 /\ remaining = 0
    /\ Cardinality(ChunkEntries(scrollLog)) = 4

(***************************************************************************)
(* Properties of HumanMove (specification SpecMouse).                      *)
(***************************************************************************)
Moved == move.n > 0 /\ move.err = Nil
LastSample == move.path[Len(move.path)]

\* C26: a move emits steps+1 pointer-move events with progress 0/steps, 1/steps, ...,
\* steps/steps in this order; the first is at the tracked start position with eased
\* progress 0, the last at the randomized destination with eased progress 1.
C26_PathEndpoints ==
    Moved =>
        /\ Len(move.path) = move.steps + 1
        /\ \A k \in DOMAIN move.path :
              /\ move.path[k].i = k - 1
              /\ move.path[k].steps = move.steps
        /\ \A k \in 1..(Len(move.path) - 1) : move.path[k].ease <= move.path[k + 1].ease
        /\ move.path[1].ease = 0
        /\ Point(move.path[1].x, move.path[1].y) = move.start
        /\ LastSample.i = move.steps /\ LastSample.ease = FixedOne
        /\ Point(LastSample.x, LastSample.y) = move.target

\* Witness of C26: a second move, from where the first one ended, over more than the
\* minimum of steps.
C26_Witness ==
    /\ Moved /\ move.n = 2
    /\ move.start # Origin
    /\ move.steps > 10

\* C27 as stated: of any two moves the one over the shorter distance has at most as many
\* samples as the other, and no move has fewer than 10 steps.
C27_StepsMonotone ==
    /\ Moved => move.steps >= 10
    /\ (Moved /\ prevMove # NoSummary) =>
          /\ prevMove.dist2 <= move.dist2 => prevMove.steps <= move.steps
          /\ move.dist2 <= prevMove.dist2 => move.steps <= prevMove.steps

\* C27, amended: of two moves played at the same speed the one over the shorter distance
\* has at most as many samples as the other; no move has fewer than 10 steps.
C27_StepsMonotoneAtEqualSpeed ==
    /\ Moved => move.steps >= 10
    /\ (Moved /\ prevMove # NoSummary /\ prevMove.speed = move.speed) =>
          /\ prevMove.steps >= 10
          /\ prevMove.dist2 <= move.dist2 => prevMove.steps <= move.steps
          /\ move.dist2 <= prevMove.dist2 => move.steps <= prevMove.steps

\* Witness of C27: two moves at the same speed, the second longer and with more samples.
C27_Witness ==
    /\ Moved /\ prevMove # NoSummary
    /\ prevMove.speed = move.speed
    /\ prevMove.dist2 < move.dist2
    /\ prevMove.steps < move.steps

\* A call whose element.Shape() gave no box, by an error or by a shape without a quad:
\* an error is returned, after one Shape call, with no pointer-move event and the
\* tracked position as it was.
C28_ErrorLeavesPointer ==
    (move.n > 0 /\ (move.shapeErr # Nil \/ ~move.quads)) =>
        /\ move.err \notin {Nil, ErrNilBox}
        /\ move.shape = 1
        /\ move.path = <<>>
        /\ LastMouse = move.start

\* The tracked position changes only in a call that returns nil after its last sample
\* and whose Mouse.MoveTo calls all succeeded.
C28_TrackedStep ==
    LastMouse' # LastMouse =>
        /\ move'.err = Nil
        /\ Len(move'.path) = move'.steps + 1
        /\ ~move'.moveToErr

\* C28 as stated: a HumanMove whose bounding box cannot be obtained returns an error
\* without any pointer-move event and without retrying, and leaves the tracked position
\* unchanged; the tracked position changes only when a move completes successfully.
C28_ShapeErrorNoMove == [](C28_ErrorLeavesPointer) /\ [][C28_TrackedStep]_vars

\* What holds of C28: an error of element.Shape() is returned as it is, after one Shape
\* call, with no pointer-move event and the tracked position as it was; and no call
\* without a box moves the pointer or the tracked position.
C28_ShapeErrorReturned ==
    /\ move.shapeErr # Nil =>
          move.err = move.shapeErr /\ move.shape = 1
    /\ (move.n > 0 /\ ~move.quads) =>
          move.path = <<>> /\ LastMouse = move.start

\* C29 as stated: after a successful move the tracked position is the nominal
\* destination (the centre of the target's box), not the randomized point.
C29_TrackedIsNominal ==
    Moved => LastMouse = move.center

\* C29, amended: after a successful move the tracked position is the randomized point
\* inside the box that the path was built to, which is where the last pointer-move
\* event went.
C29_TrackedIsRandomizedTarget ==
    Moved =>
        /\ LastMouse = move.target
        /\ LastMouse = Point(LastSample.x, LastSample.y)

\* Witness of C29: the randomized point is off the centre in both coordinates.
C29_Witness ==
    /\ Moved
    /\ move.target.x # move.center.x /\ move.target.y # move.center.y
    /\ LastMouse = move.target

(***************************************************************************)
(* Properties of HumanType (specification SpecType).                       *)
(***************************************************************************)
Typed == typePc = "done" /\ typeRet = Nil
NoTypoDrawn == \A k \in DOMAIN typeDraws : typeDraws[k] >= TypoRate
IsInsert(e) == e[1] = "InsertText"
IsDelete(e) == e[1] = "Press"
RECURSIVE InsertedTexts(_)
InsertedTexts(log) ==
    IF log = <<>> THEN <<>>
    ELSE (IF IsInsert(Head(log)) THEN <<Head(log)[2]>> ELSE <<>>) \o InsertedTexts(Tail(log))
RECURSIVE Flatten(_)
Flatten(seqs) == IF seqs = <<>> THEN <<>> ELSE Head(seqs) \o Flatten(Tail(seqs))
NoDelete(log) == \A k \in DOMAIN log : ~IsDelete(log[k])

\* Well-formed UTF-8 made of one- and two-byte sequences, and its number of characters.
RECURSIVE ValidUTF8(_)
ValidUTF8(text) ==
    IF text = <<>> THEN TRUE
    ELSE IF text[1] < 128 THEN ValidUTF8(Tail(text))
    ELSE /\ IsLead2(text[1])
         /\ Len(text) >= 2
         /\ IsContinuation(text[2])
         /\ ValidUTF8(Tail(Tail(text)))
Characters(text) == Cardinality({k \in DOMAIN text : ~IsContinuation(text[k])})

\* C30 as stated: when no typo is simulated, one insert event is emitted per character,
\* in order, with no delete event, and the inserted characters put together are the
\* original string, whatever the string.
C30_NoTypoReconstructs ==
    (Typed /\ NoTypoDrawn) =>
        /\ Len(InsertedTexts(typeLog)) = Len(typeChars)
        /\ NoDelete(typeLog)
        /\ Flatten(InsertedTexts(typeLog)) = typeIn.text

\* C30, amended: when no typo is simulated, one insert event is emitted per code point
\* of the decoded text, in order, with no delete event; the inserted characters put
\* together are the original string when it is valid UTF-8, and then their number is
\* its number of characters; a byte outside a valid sequence is inserted as U+FFFD.
C30_NoTypoInsertsCodePoints ==
    (Typed /\ NoTypoDrawn) =>
        LET ins == InsertedTexts(typeLog)
        IN  /\ Len(ins) = Len(typeChars)
            /\ \A k \in DOMAIN ins : ins[k] = EncodeRune(typeChars[k])
            /\ NoDelete(typeLog)
            /\ IF ValidUTF8(typeIn.text)
               THEN /\ Flatten(ins) = typeIn.text
                    /\ Len(ins) = Characters(typeIn.text)
               ELSE /\ Flatten(ins) # typeIn.text
                    /\ \E k \in DOMAIN ins : ins[k] = EncodeRune(RuneError)

\* Witness of C30: a text of two characters, one of them of two bytes, typed with a draw
\* equal to the typo rate.
C30_Witness ==
    /\ Typed /\ NoTypoDrawn
    /\ typeIn.text = <<97, 195, 169>>
    /\ typeDraws = <<TypoRate, 50>>
    /\ InsertedTexts(typeLog) = <<<<97>>, <<195, 169>>>>

\* C31: the first failing character insertion (or delete) aborts typing: no character
\* after it is inserted and the call returns an error; and when focus cannot be acquired
\* the call returns the error before any insert event.
C31_FirstErrorAborts ==
    /\ typeFailed # NoFailure =>
          /\ typeI <= typeFailed.at
          /\ typePc = "done" => typeRet # Nil
    /\ (typePc # "call" /\ typeIn.focus # Nil) =>
          /\ typePc = "done" /\ typeRet = typeIn.focus
          /\ InsertedTexts(typeLog) = <<>>

\* The text in the field after the calls of the log: an insert adds its character at the
\* end and a delete removes the character before the caret.
RECURSIVE FieldAfter(_, _)
FieldAfter(field, log) ==
    IF log = <<>> THEN field
    ELSE IF IsInsert(Head(log)) THEN FieldAfter(Append(field, Head(log)[2]), Tail(log))
    ELSE IF IsDelete(Head(log))
         THEN FieldAfter(IF field = <<>> THEN field ELSE SubSeq(field, 1, Len(field) - 1),
                         Tail(log))
    ELSE FieldAfter(field, Tail(log))
IsCall(e) == IsInsert(e) \/ IsDelete(e)
Calls(log) == SelectSeq(log, IsCall)
TyposDrawn == Cardinality({k \in DOMAIN typeDraws : typeDraws[k] < TypoRate})

\* Every delete comes right after the insert of one character that differs from the
\* character inserted right after it, and there is one delete per simulated typo.
TypoPattern ==
    LET calls == Calls(typeLog)
    IN  /\ \A k \in DOMAIN calls :
              IsDelete(calls[k]) =>
                  /\ k > 1 /\ k < Len(calls)
                  /\ IsInsert(calls[k - 1]) /\ IsInsert(calls[k + 1])
                  /\ calls[k - 1][2] # calls[k + 1][2]
                  /\ calls[k] = Press(Backspace)
        /\ Cardinality({k \in DOMAIN calls : IsDelete(calls[k])}) = TyposDrawn
        /\ Len(InsertedTexts(typeLog)) = Len(typeChars) + TyposDrawn

\* C39 as stated: for every input string and every pattern of typos the text left in
\* the field of the page is the input, each typo being one wrong character, one delete
\* and then the intended character.
C39_FieldEqualsInput ==
    Typed =>
        /\ Flatten(typeField) = typeIn.text
        /\ TypoPattern

\* What holds of C39 in the runs in which no call answers an error: the text in the
\* field is the decoded input, character by character, which is the input itself when
\* it is valid UTF-8; each typo is one wrong character, one delete and then the intended
\* character.
C39_FieldEqualsDecodedInput ==
    (Typed /\ typeFailed = NoFailure) =>
        /\ typeField = [k \in DOMAIN typeChars |-> EncodeRune(typeChars[k])]
        /\ typeField = FieldAfter(<<>>, typeLog)
        /\ ValidUTF8(typeIn.text) => Flatten(typeField) = typeIn.text
        /\ TypoPattern

(***************************************************************************)
(* Properties of SleepWithJitter (specification SpecJitter).               *)
(***************************************************************************)
Slept == jitterPc = "done"
WithinDeviation(b, f, d) ==
    /\ b * (100 - f) <= 100 * d
    /\ 100 * d <= b * (100 + f)

\* C32 as stated: for every base b and deviation f (a negative f counted as 0) the
\* duration slept is within b*(1-f) and b*(1+f) and is not negative, also when the base
\* is 0 or negative.
C32_JitterWithinDeviation ==
    Slept =>
        /\ WithinDeviation(jitterIn.base, ClampDeviation(jitterIn.deviation), jitterSlept)
        /\ jitterSlept >= 0

\* C32, amended: the duration slept is never negative; for a base b >= 0 and deviation f
\* (a negative f counted as 0) it is within b*(1-f) and b*(1+f); for a negative base it
\* is 0 when f <= 1 and at most |b|*(f-1) when f > 1.
C32_JitterWithinDeviationOfBase ==
    Slept =>
        /\ jitterSlept >= 0
        /\ jitterIn.base >= 0 =>
              WithinDeviation(jitterIn.base, ClampDeviation(jitterIn.deviation), jitterSlept)
        /\ jitterIn.base < 0 =>
              IF ClampDeviation(jitterIn.deviation) <= 100
              THEN jitterSlept = 0
              ELSE 100 * jitterSlept <=
                       (0 - jitterIn.base) * (ClampDeviation(jitterIn.deviation) - 100)

\* Witness of C32: a deviation above 1 and the shortest sleep of its range.
C32_Witness ==
    /\ Slept
    /\ jitterIn.base = MaxBase /\ jitterIn.deviation = 150
    /\ jitterSlept = 0

(***************************************************************************)
(* Properties of SearchPeople (specification SpecSearch).                  *)
(***************************************************************************)
Searched == searchPc = "done" /\ searchRet.err = Nil
\* Where a URL was first seen among the anchors read (0: nowhere).
FirstSeenAt(url) ==
    LET at == {k \in DOMAIN anchors : IsProfileLink(anchors[k]) /\ CleanURL(anchors[k]) = url}
    IN  IF at = {} THEN 0 ELSE CHOOSE k \in at : \A j \in at : k <= j
NoDuplicates(urls) == \A i, j \in DOMAIN urls : urls[i] = urls[j] => i = j
FirstSeenOrder(urls) ==
    /\ \A i \in DOMAIN urls : FirstSeenAt(urls[i]) > 0
    /\ \A i, j \in DOMAIN urls : i < j => FirstSeenAt(urls[i]) < FirstSeenAt(urls[j])
AbsoluteWithoutQuery(url) == HasPrefixHttp(url) /\ ~Contains(url, QueryMark)

\* The parts of C33 other than the profile-path marker.
SearchResultsClean ==
    Searched =>
        /\ NoDuplicates(searchRet.urls)
        /\ FirstSeenOrder(searchRet.urls)
        /\ \A k \in DOMAIN searchRet.urls :
              /\ ~Contains(searchRet.urls[k], MiniProfileMarker)
              /\ AbsoluteWithoutQuery(searchRet.urls[k])

\* C33: the list returned by SearchPeople has no duplicates, every entry contains the
\* marker "/in/" and not "/mini-profile/", every entry is absolute (starts with "http")
\* and has no query string, and the entries are in first-seen order.
C33_ResultsAreProfiles ==
    /\ SearchResultsClean
    /\ Searched => \A k \in DOMAIN searchRet.urls : Contains(searchRet.urls[k], ProfileMarker)

SearchDone == searchPc = "done"
Scrapes(log) == SelectSeq(log, LAMBDA e : e[1] = "Scrape")
NextClicks(log) == SelectSeq(log, LAMBDA e : e[1] = "Click")
IsStop(e) == e = <<"Next", "absent">> \/ e = <<"Next", "disabled">>

\* A Next control that is absent or disabled ends the call: it is the last event, and
\* the call returns what it accumulated, without error.  Every click comes right after
\* a Next control that was found and not disabled.
StopsAtLastPage ==
    /\ \A k \in DOMAIN searchLog :
          /\ IsStop(searchLog[k]) =>
                /\ k = Len(searchLog)
                /\ searchPc \in {"return", "done"}
                /\ SearchDone => searchRet = [urls |-> results, err |-> Nil]
          /\ searchLog[k][1] = "Click" => (k > 1 /\ searchLog[k - 1] = <<"Next", "enabled">>)

\* C34 as stated: at most maxPages pages are scraped and Next is clicked at most
\* maxPages-1 times; pagination stops, without error, as soon as Next is absent or
\* disabled, and a disabled Next is never clicked.
C34_PagesWithinMax ==
    /\ SearchDone =>
          /\ Len(Scrapes(searchLog)) <= searchIn.maxPages
          /\ Len(NextClicks(searchLog)) <= searchIn.maxPages - 1
    /\ StopsAtLastPage

\* C34, amended: at most max(maxPages, 0) pages are scraped and Next is clicked at most
\* max(maxPages-1, 0) times (nothing is scraped or clicked when maxPages <= 0);
\* pagination stops, without error, as soon as Next is absent or disabled, and a
\* disabled Next is never clicked.
C34_PagesWithinNonNegativeMax ==
    /\ Len(Scrapes(searchLog)) <= Max(searchIn.maxPages, 0)
    /\ Len(NextClicks(searchLog)) <= Max(searchIn.maxPages - 1, 0)
    /\ StopsAtLastPage

\* Witness of C34: two pages asked for and scraped, with one click between them.
C34_Witness ==
    /\ Searched
    /\ searchIn.maxPages = 2
    /\ Len(Scrapes(searchLog)) = 2
    /\ Len(NextClicks(searchLog)) = 1

Waited == \E k \in DOMAIN searchLog : searchLog[k][1] = "Wait"
TimedOut == \E k \in DOMAIN searchLog : searchLog[k] = <<"Wait", "timeout">>

\* A timeout of the wait is not an error, and a failed navigation ends the call with
\* its error before anything is waited for or scraped.
WaitNeverFails ==
    /\ (SearchDone /\ searchIn.nav = Nil) =>
          /\ searchRet.err = Nil
          /\ (TimedOut /\ searchIn.maxPages >= 1) => Len(Scrapes(searchLog)) >= 1
    /\ (searchPc # "call" /\ searchIn.nav # Nil) =>
          /\ SearchDone
          /\ searchRet = [urls |-> <<>>, err |-> searchIn.nav]
          /\ searchLog = <<<<"Navigate">>>>

\* C35 as stated: the load signal is the presence of at least two profile links; a
\* timeout of the wait is not an error and the scraping goes on; a failed navigation
\* returns an error without scraping.
C35_LoadSignalTwoLinks ==
    /\ Waited => (TimedOut <=> ~(searchIn.links >= 2))
    /\ WaitNeverFails

\* C35, amended: the load signal is the presence of more than two profile links; a
\* timeout of the wait is not an error and the scraping goes on; a failed navigation
\* returns an error without scraping.
C35_LoadSignalMoreThanTwoLinks ==
    /\ Waited => (TimedOut <=> ~(searchIn.links > 2))
    /\ WaitNeverFails

\* Witness of C35: the wait timed out with two profile links present, and the call
\* scraped a profile and returned it.
C35_Witness ==
    /\ Searched /\ TimedOut
    /\ searchIn.links = 2
    /\ searchRet.urls # <<>>


(***************************************************************************)
(* RunFollowUpWorkflow and RunConnectWorkflow                              *)
(***************************************************************************)
\* The SendFollowUp calls of the run that returned nil: follow-ups sent.
FollowUpsSent == Cardinality({k \in DOMAIN wfLog : wfLog[k].err = Nil})
SentBefore(k) == Cardinality({j \in 1..(k - 1) : wfLog[j].err = Nil})

\* SendFollowUp is entered only below the limit and only for a URL the store does not
\* mark messaged, whether the call is about to be made or has returned.
CallsBelowLimit ==
    /\ \A k \in DOMAIN wfLog : wfLog[k].processed < wfIn.limit /\ ~wfLog[k].messaged
    /\ wfPc = "call" /\ msgRet = "none" =>
          processed < wfIn.limit /\ wfIn.urls[wfI] \notin DOMAIN Data.Messages

\* processed counts the calls that returned nil and no others.
CountsSuccessesOnly ==
    /\ processed = FollowUpsSent
    /\ \A k \in DOMAIN wfLog : wfLog[k].processed = SentBefore(k)

\* The loop ends at the end of the list or at the limit, never at a failed send.
FailureDoesNotStop ==
    wfPc = "done" /\ wfIn.err = Nil =>
        wfI > Len(wfIn.urls) \/ processed >= wfIn.limit

\* C36 as stated: in one run of RunFollowUpWorkflow the follow-ups sent never exceed
\* the daily message limit; SendFollowUp is not called at the limit, a failed send
\* neither counts nor stops the loop, and URLs marked messaged are skipped.
C36_FollowUpsWithinLimit ==
    /\ wfPc = "done" => FollowUpsSent <= wfIn.limit
    /\ CallsBelowLimit
    /\ CountsSuccessesOnly
    /\ FailureDoesNotStop

\* C36, amended: the follow-ups sent never exceed the daily message limit when it is
\* not negative, and none is sent when it is negative; the rest as stated.
C36_FollowUpsWithinNonNegativeLimit ==
    /\ FollowUpsSent <= Max(wfIn.limit, 0)
    /\ CallsBelowLimit
    /\ CountsSuccessesOnly
    /\ FailureDoesNotStop

\* A run that sent as many follow-ups as the limit allows, had a failed send before the
\* last of them, skipped nothing else, and stopped with a link still unread.
C36_Witness ==
    /\ wfPc = "done"
    /\ wfIn.limit = 1
    /\ FollowUpsSent = 1
    /\ Len(wfLog) = 2
    /\ wfLog[1].err # Nil
    /\ wfI <= Len(wfIn.urls)
    /\ wfIn.urls[wfI] \notin DOMAIN Data.Messages


\* The marks of the store when the workflow was entered.
MarkedAtEntry(url) ==
    url \in DOMAIN wfIn.store.Data.Requests \/ url \in DOMAIN wfIn.store.Data.Connections
StoreUntouched ==
    /\ Data = wfIn.store.Data
    /\ file = wfIn.store.file
    /\ clock = 0
    /\ lastOp.op = "NewJSONStore"

\* SendConnectionRequest has been entered by the workflow.
ConnectInvoked == ret # "none"

\* C37: RunConnectWorkflow never calls SendConnectionRequest for a URL the store marks
\* request-sent or connected, the target is one of the profiles found, and a run
\* without an unprocessed candidate makes no call, touches no page and leaves the store
\* and its file as they were.
C37_OnlyUnprocessedTargets ==
    /\ ConnectInvoked =>
          /\ ~MarkedAtEntry(targetURL)
          /\ targetURL \in Range(wfIn.urls)
          /\ targetURL = candidates[1]
    /\ ConnectInvoked /\ wfPc = "send" =>
          targetURL \notin DOMAIN Data.Requests /\ targetURL \notin DOMAIN Data.Connections
    /\ \A k \in DOMAIN candidates : ~MarkedAtEntry(candidates[k])
    /\ wfPc = "done" /\ Len(candidates) = 0 =>
          ~ConnectInvoked /\ events = <<>> /\ sentCount = 0 /\ StoreUntouched

\* A run whose search found a connected profile and an unprocessed one, and whose call
\* for the unprocessed one has returned nil.
C37_Witness ==
    /\ wfPc = "done"
    /\ ret = Nil
    /\ \E k \in DOMAIN wfIn.urls : wfIn.urls[k] \in DOMAIN wfIn.store.Data.Connections
    /\ targetURL \in DOMAIN Data.Requests

\* C38 as stated: the connect workflow marks a URL request-sent only if a send control
\* (Send, Follow or the chat's Send) was clicked for it in the run; a call that sent
\* nothing leaves the Requests map as it was.
C38_MarkedOnlyIfIssued ==
    /\ targetURL \in DOMAIN Data.Requests => SendClicks(events) >= 1
    /\ wfPc = "done" /\ ConnectInvoked /\ SendClicks(events) = 0 =>
          DOMAIN Data.Requests = DOMAIN wfIn.store.Data.Requests

====
